---------------------------- MODULE Spec2Model ----------------------------
(***************************************************************************)
(* Pixel Plant: the personality engine (personality_engine.cpp/.h), the    *)
(* configuration constants (config.h) and the main sketch                  *)
(* (pixel_plant.ino), as a state machine.                                  *)
(*                                                                         *)
(* The PersonalityEngine object is the record `personality`; its methods   *)
(* are operators from an engine record (and the arguments, and millis())   *)
(* to the engine record after the call, so that a caller's sequence of     *)
(* calls is the composition of the operators.  Methods that return a       *)
(* String return [p |-> engine after, text |-> what was returned].         *)
(*                                                                         *)
(* Thirteen specifications share the variables:                                 *)
(*   Spec        the escalation state machine: the engine's public         *)
(*               operations that read or write mood, care level and the    *)
(*               interaction history, called at one instant;               *)
(*   SpecSelect  the response selector: message generation against the     *)
(*               clock, the cooldown and the message bank;                 *)
(*   SpecContext the responses asked for by behaviour snapshot;            *)
(*   SpecUrgent  urgent responses against the clock and enableResponses;   *)
(*   SpecTie     selections from one bank when scores are equal;           *)
(*   SpecLearn   the preference learner: outcomes and adaptation rates;    *)
(*   SpecPersist the escalation state machine across a save and a load;    *)
(*   SpecIgnored reminders ignored in a row, up to the fifth and beyond;   *)
(*   SpecQueue   the message queue filled and emptied;                     *)
(*   SpecQuiet   responses asked for while the engine may not respond;     *)
(*   SpecSystem  the sketch: loop(), mainUpdate() and the serial commands; *)
(*   SpecRecovery loop() running for ever after a failed setup();          *)
(*   SpecSpeak   loop() running for ever while messages are queued.        *)
(***************************************************************************)
EXTENDS Integers, Sequences, FiniteSets, TLC

VARIABLES
    personality,    \* PersonalityEngine personality (pixel_plant.ino:22)
    now,            \* millis()
    currentState,   \* SystemState currentState (pixel_plant.ino:27)
    sleepModeActive,\* BehaviorMonitor::sleepModeActive
    loopPhase,      \* position inside loop(): "heartbeat", "update", "tasks"
    lastUpdateTime, \* pixel_plant.ino:28
    lastHeartbeat,  \* pixel_plant.ino:29
    lastReminderCheck, \* static of checkScheduledReminders (pixel_plant.ino:244)
    loops,          \* iterations of loop() so far
    spoken,         \* what this iteration of loop() handed to audio.speakMessage
    reminded,       \* history: millis() of each reminder's latest two firings
    lastCall,       \* history: the most recent engine call
    selected        \* history: the latest selection from each message bank

vars == <<personality, now, currentState, sleepModeActive, loopPhase,
          lastUpdateTime, lastHeartbeat, lastReminderCheck, loops,
          spoken, reminded, lastCall, selected>>

---------------------------------------------------------------------------
(* config.h *)

UPDATE_INTERVAL == 100
HEARTBEAT_INTERVAL == 10000
REMINDER_CHECK_INTERVAL == 60000
HYDRATION_REMINDER_INTERVAL == 45
MOVEMENT_REMINDER_INTERVAL == 60
POSTURE_REMINDER_INTERVAL == 30
NORMAL_INACTIVITY_THRESHOLD == 30
CONCERNED_INACTIVITY_THRESHOLD == 60
URGENT_INACTIVITY_THRESHOLD == 120
RESPONSE_COOLDOWN == 5000

MOOD_HAPPY == 0
MOOD_CARING == 1
MOOD_CONCERNED == 2
MOOD_WORRIED == 3
MOOD_SLEEPING == 4
MOOD_CELEBRATING == 5
MoodType == MOOD_HAPPY .. MOOD_CELEBRATING

SYSTEM_INITIALIZING == 0
SYSTEM_READY == 1
SYSTEM_CARING == 2
SYSTEM_CONCERNED == 3
SYSTEM_SLEEPING == 4
SYSTEM_ERROR == 5
SYSTEM_UPDATING == 6
SystemState == SYSTEM_INITIALIZING .. SYSTEM_UPDATING

(* personality_engine.h *)

RESPONSE_GREETING == 0
RESPONSE_HYDRATION == 1
RESPONSE_MOVEMENT == 2
RESPONSE_POSTURE == 3
RESPONSE_BREAK == 4
RESPONSE_ENCOURAGEMENT == 5
RESPONSE_CELEBRATION == 6
RESPONSE_CONCERN == 7
RESPONSE_URGENT == 8
RESPONSE_GOODNIGHT == 9
RESPONSE_COUNT == 10
ResponseType == RESPONSE_GREETING .. (RESPONSE_COUNT - 1)

CARE_GENTLE == 0
CARE_ENCOURAGING == 1
CARE_CONCERNED == 2
CARE_WORRIED == 3
CareLevel == CARE_GENTLE .. CARE_WORRIED

---------------------------------------------------------------------------
(* Bounds of the model *)

\* updates of one userPreferences entry that are followed exactly
MaxAdapt == 1
\* consecutiveIgnored is an int that only recordUserResponse resets
MaxIgnored == 4
\* uptime explored by SpecSelect, in seconds
MaxUptimeSec == 13
\* loop() iterations explored by SpecSystem
MaxLoops == 3

---------------------------------------------------------------------------
(* Single-precision arithmetic of calculateCaringUrgency.  A float in      *)
(* [0, 2) is held as an integer number of units of 2^-27 (every float      *)
(* >= 2^-4 is a whole number of them); `urgency += 0.k` adds the literal   *)
(* in double precision and rounds the sum to the nearest float (ties to    *)
(* even).  Sums are taken in tenths of a unit, where the literal is whole. *)

F32One == 134217728

F32Ulp(d) ==
    IF d < 10 * (F32One \div 8) THEN 1
    ELSE IF d < 10 * (F32One \div 4) THEN 2
    ELSE IF d < 10 * (F32One \div 2) THEN 4
    ELSE IF d < 10 * F32One THEN 8
    ELSE 16

F32Round(d) ==
    LET u == F32Ulp(d)
        q == d \div (10 * u)
        r == d % (10 * u)
    IN  IF 2 * r > 10 * u \/ (2 * r = 10 * u /\ q % 2 = 1)
        THEN (q + 1) * u
        ELSE q * u

\* (float)((double)x + k/10)
F32AddTenths(x, k) == F32Round(10 * x + k * F32One)

\* x > k/10 and x < k/10, the float promoted to double
F32GtTenths(x, k) == 10 * x > k * F32One
F32LtTenths(x, k) == 10 * x < k * F32One

---------------------------------------------------------------------------
(* BehaviorData (behavior_monitor.h): the fields the engine reads *)

InactivityValues == {0, 30, 31, 60, 61, 91, 120, 121}

BehaviorData ==
    [inactivityMinutes : InactivityValues,
     needsHydration : BOOLEAN,
     needsMovement : BOOLEAN,
     needsPostureAdjustment : BOOLEAN,
     needsEncouragement : BOOLEAN,
     needsSupport : BOOLEAN,
     hasPositiveBehavior : BOOLEAN]

\* behaviorToMood looking at the positive behaviour first
behaviorToMood_PositiveFirst(behavior) ==
    IF behavior.hasPositiveBehavior THEN MOOD_CELEBRATING
    ELSE IF behavior.inactivityMinutes > URGENT_INACTIVITY_THRESHOLD THEN MOOD_WORRIED
    ELSE IF behavior.inactivityMinutes > CONCERNED_INACTIVITY_THRESHOLD THEN MOOD_CONCERNED
    ELSE IF behavior.needsSupport THEN MOOD_CARING
    ELSE MOOD_HAPPY

\* behaviorToMood with the two inactivity thresholds included
behaviorToMood_AtThreshold(behavior) ==
    IF behavior.inactivityMinutes >= URGENT_INACTIVITY_THRESHOLD THEN MOOD_WORRIED
    ELSE IF behavior.inactivityMinutes >= CONCERNED_INACTIVITY_THRESHOLD THEN MOOD_CONCERNED
    ELSE IF behavior.hasPositiveBehavior THEN MOOD_CELEBRATING
    ELSE IF behavior.needsSupport THEN MOOD_CARING
    ELSE MOOD_HAPPY

\* PersonalityTraits::behaviorToMood
behaviorToMood(behavior) ==
    IF behavior.inactivityMinutes > URGENT_INACTIVITY_THRESHOLD THEN MOOD_WORRIED
    ELSE IF behavior.inactivityMinutes > CONCERNED_INACTIVITY_THRESHOLD THEN MOOD_CONCERNED
    ELSE IF behavior.hasPositiveBehavior THEN MOOD_CELEBRATING
    ELSE IF behavior.needsSupport THEN MOOD_CARING
    ELSE MOOD_HAPPY

\* calculateCaringUrgency with the hydration need weighing 0.1 and the
\* posture need 0.3
calculateCaringUrgency_NeedsSwapped(behavior) ==
    LET u0 == IF behavior.inactivityMinutes > URGENT_INACTIVITY_THRESHOLD
                  THEN F32AddTenths(0, 8)
              ELSE IF behavior.inactivityMinutes > CONCERNED_INACTIVITY_THRESHOLD
                  THEN F32AddTenths(0, 5)
              ELSE IF behavior.inactivityMinutes > NORMAL_INACTIVITY_THRESHOLD
                  THEN F32AddTenths(0, 3)
              ELSE 0
        u1 == IF behavior.needsHydration THEN F32AddTenths(u0, 1) ELSE u0
        u2 == IF behavior.needsMovement THEN F32AddTenths(u1, 2) ELSE u1
        u3 == IF behavior.needsPostureAdjustment THEN F32AddTenths(u2, 3) ELSE u2
    IN  IF u3 < F32One THEN u3 ELSE F32One

\* PersonalityTraits::calculateCaringUrgency, in units of 2^-27
calculateCaringUrgency(behavior) ==
    LET u0 == IF behavior.inactivityMinutes > URGENT_INACTIVITY_THRESHOLD
                  THEN F32AddTenths(0, 8)
              ELSE IF behavior.inactivityMinutes > CONCERNED_INACTIVITY_THRESHOLD
                  THEN F32AddTenths(0, 5)
              ELSE IF behavior.inactivityMinutes > NORMAL_INACTIVITY_THRESHOLD
                  THEN F32AddTenths(0, 3)
              ELSE 0
        u1 == IF behavior.needsHydration THEN F32AddTenths(u0, 3) ELSE u0
        u2 == IF behavior.needsMovement THEN F32AddTenths(u1, 2) ELSE u1
        u3 == IF behavior.needsPostureAdjustment THEN F32AddTenths(u2, 1) ELSE u2
    IN  IF u3 < F32One THEN u3 ELSE F32One

---------------------------------------------------------------------------
(* The message catalog (personality_engine.cpp:61-154).  A String is the   *)
(* sequence of its pieces, so that the placeholder "{name}" is a piece of  *)
(* its own and String::replace is a map over the pieces; "" is << >>.  The *)
(* emoji that end the source's literals are left out of the pieces.        *)

\* PersonalityMessage {text, mood, careLevel, timestamp, useCount}
Msg(text, mood, careLevel) ==
    [text |-> text, mood |-> mood, careLevel |-> careLevel,
     timestamp |-> 0, useCount |-> 0]

\* PersonalityEngine::loadHydrationMessages (lines 65-81)
HydrationMessages ==
    <<Msg(<<"Hey there! You need to hydrate!">>,
          MOOD_CARING, CARE_GENTLE),
      Msg(<<"Time for some water, ", "{name}", "! Your body will thank you!">>,
          MOOD_CARING, CARE_GENTLE),
      Msg(<<"How about a refreshing drink? Stay hydrated!">>,
          MOOD_HAPPY, CARE_GENTLE),
      Msg(<<"Your pixel plant thinks you could use some H2O!">>,
          MOOD_HAPPY, CARE_GENTLE),
      Msg(<<"Thirsty? I bet you are! Take a sip for me!">>,
          MOOD_CARING, CARE_GENTLE),
      Msg(<<"I notice you haven't had water in a while. How about it?">>,
          MOOD_CARING, CARE_ENCOURAGING),
      Msg(<<"Your caring companion reminds you: hydration is self-care!">>,
          MOOD_CARING, CARE_ENCOURAGING),
      Msg(<<"Let's keep that energy up with some refreshing water!">>,
          MOOD_CARING, CARE_ENCOURAGING),
      Msg(<<"Hey ", "{name}", ", I'm getting a bit worried about your hydration. Please drink something!">>,
          MOOD_CONCERNED, CARE_CONCERNED),
      Msg(<<"It's been quite a while since your last drink. Your pixel plant is concerned!">>,
          MOOD_CONCERNED, CARE_CONCERNED),
      Msg(<<"Please, ", "{name}", " - you really need to drink some water now. I'm worried about you!">>,
          MOOD_WORRIED, CARE_WORRIED)>>

\* PersonalityEngine::loadMovementMessages (lines 88-101)
MovementMessages ==
    <<Msg(<<"How about a snack? Take a walk! Stretch it out!">>,
          MOOD_CARING, CARE_GENTLE),
      Msg(<<"Time to get those muscles moving, ", "{name}", "! Even a little stretch helps!">>,
          MOOD_HAPPY, CARE_GENTLE),
      Msg(<<"Your body is asking for some movement! Listen to it!">>,
          MOOD_CARING, CARE_GENTLE),
      Msg(<<"Let's get the blood flowing! A quick walk does wonders!">>,
          MOOD_HAPPY, CARE_GENTLE),
      Msg(<<"Movement is medicine! How about a little dance?">>,
          MOOD_HAPPY, CARE_GENTLE),
      Msg(<<"You've been sitting for a while. Your pixel plant suggests a movement break!">>,
          MOOD_CARING, CARE_ENCOURAGING),
      Msg(<<"I know you're focused, but your body needs some love too! Stretch time!">>,
          MOOD_CARING, CARE_ENCOURAGING),
      Msg(<<"Even champions need movement breaks! You've got this!">>,
          MOOD_CARING, CARE_ENCOURAGING),
      Msg(<<"I'm noticing you've been still for quite some time. Please move around a bit!">>,
          MOOD_CONCERNED, CARE_CONCERNED),
      Msg(<<"Your caring companion is getting concerned about your posture. Stand up for me?">>,
          MOOD_CONCERNED, CARE_CONCERNED)>>

\* PersonalityEngine::loadPostureMessages (lines 107-111)
PostureMessages ==
    <<Msg(<<"Time to adjust that posture! Stretch it out!">>,
          MOOD_CARING, CARE_GENTLE),
      Msg(<<"Roll those shoulders back, ", "{name}", "! Your spine will thank you!">>,
          MOOD_CARING, CARE_GENTLE),
      Msg(<<"Let's check that posture! Sit up tall like the amazing person you are!">>,
          MOOD_HAPPY, CARE_GENTLE),
      Msg(<<"Your pixel plant notices some slouching! Time for a posture reset!">>,
          MOOD_CARING, CARE_GENTLE),
      Msg(<<"Gentle reminder: your future self will thank you for good posture now!">>,
          MOOD_CARING, CARE_ENCOURAGING)>>

\* PersonalityEngine::loadEncouragementMessages (lines 117-123)
EncouragementMessages ==
    <<Msg(<<"You're doing great! Keep up the amazing work!">>,
          MOOD_HAPPY, CARE_GENTLE),
      Msg(<<"Aw, it's not so bad! Give yourself a hug!">>,
          MOOD_CARING, CARE_GENTLE),
      Msg(<<"I believe in you, ", "{name}", "! You've got this!">>,
          MOOD_HAPPY, CARE_ENCOURAGING),
      Msg(<<"Every small step counts! You're making progress!">>,
          MOOD_CARING, CARE_GENTLE),
      Msg(<<"Your pixel plant is proud of your efforts! Keep going!">>,
          MOOD_HAPPY, CARE_GENTLE),
      Msg(<<"Remember: you're braver than you believe and stronger than you seem!">>,
          MOOD_CARING, CARE_ENCOURAGING),
      Msg(<<"Tough moments don't last, but resilient people like you do!">>,
          MOOD_CARING, CARE_ENCOURAGING)>>

\* PersonalityEngine::loadCelebrationMessages (lines 129-133)
CelebrationMessages ==
    <<Msg(<<"Wonderful! You took care of yourself! I'm so proud!">>,
          MOOD_CELEBRATING, CARE_GENTLE),
      Msg(<<"Yes! That's what I love to see! Great self-care!">>,
          MOOD_CELEBRATING, CARE_GENTLE),
      Msg(<<"You listened to your body! That's what caring for yourself looks like!">>,
          MOOD_HAPPY, CARE_GENTLE),
      Msg(<<"Your pixel plant is doing a happy dance! Well done, ", "{name}", "!">>,
          MOOD_CELEBRATING, CARE_GENTLE),
      Msg(<<"That's the spirit! Taking care of yourself is beautiful!">>,
          MOOD_HAPPY, CARE_GENTLE)>>

\* PersonalityEngine::loadConcernMessages (lines 139-144)
ConcernMessages ==
    <<Msg(<<"I'm getting a bit worried about you. Everything okay?">>,
          MOOD_CONCERNED, CARE_CONCERNED),
      Msg(<<"Your pixel plant is concerned. You matter, and your wellbeing matters!">>,
          MOOD_CONCERNED, CARE_CONCERNED),
      Msg(<<"I care about you, ", "{name}", ". Let's take care of your needs together!">>,
          MOOD_CONCERNED, CARE_CONCERNED),
      Msg(<<"I'm really worried now. Please take a moment for yourself!">>,
          MOOD_WORRIED, CARE_WORRIED),
      Msg(<<"This is your caring companion speaking: you need attention right now!">>,
          MOOD_WORRIED, CARE_WORRIED)>>

\* PersonalityEngine::loadGreetingMessages (lines 150-153)
GreetingMessages ==
    <<Msg(<<"Hello there! Your caring companion is here!">>,
          MOOD_HAPPY, CARE_GENTLE),
      Msg(<<"Good to see you, ", "{name}", "! Ready to take great care of yourself today?">>,
          MOOD_HAPPY, CARE_GENTLE),
      Msg(<<"Your pixel plant missed you! Let's have a wonderful day together!">>,
          MOOD_HAPPY, CARE_GENTLE),
      Msg(<<"Welcome back! I'm here to help you stay healthy and happy!">>,
          MOOD_HAPPY, CARE_GENTLE)>>

\* what initializeMessageBank() appends to each bank
Catalog(type) ==
    CASE type = RESPONSE_HYDRATION -> HydrationMessages
      [] type = RESPONSE_MOVEMENT -> MovementMessages
      [] type = RESPONSE_POSTURE -> PostureMessages
      [] type = RESPONSE_ENCOURAGEMENT -> EncouragementMessages
      [] type = RESPONSE_CELEBRATION -> CelebrationMessages
      [] type = RESPONSE_CONCERN -> ConcernMessages
      [] type = RESPONSE_GREETING -> GreetingMessages
      [] OTHER -> << >>

\* generateCaringResponse's fallback, personality_engine.cpp:167
FallbackMessage == <<"I care about you!">>

---------------------------------------------------------------------------
(* userPreferences[] holds floats in [0,1]; an entry is held as the exact  *)
(* rational n / PrefOne.  With rate 1/10 an update divides by ten, so an   *)
(* entry is followed exactly for MaxAdapt updates (CanAdapt); the float's  *)
(* rounding of the same value is not modelled.                             *)

RECURSIVE Pow10(_)
Pow10(n) == IF n = 0 THEN 1 ELSE 10 * Pow10(n - 1)

PrefOne == Pow10(MaxAdapt + 1)

\* LEARNING_RATE 0.1 (config.h:186), as a fraction; adaptationRate is held
\* in units of 1/RateDen
RateNum == 1
RateDen == 10

\* PersonalityEngine::PersonalityEngine().  caringIntensity and
\* personalityWarmth, which no method reads, are left out.
PersonalityEngine ==
    [currentMood |-> MOOD_HAPPY,
     currentCareLevel |-> CARE_GENTLE,
     messageBank |-> [t \in ResponseType |-> << >>],
     messageQueue |-> << >>,
     lastMessageTime |-> 0,
     history |-> [lastResponseType |-> RESPONSE_GREETING,
                  lastResponseTime |-> 0,
                  userResponded |-> FALSE,
                  consecutiveIgnored |-> 0],
     userName |-> "friend",
     userPreferences |-> [t \in ResponseType |-> PrefOne \div 2],
     learningEnabled |-> TRUE,
     adaptationRate |-> RateNum,
     responseCooldown |-> RESPONSE_COOLDOWN,
     canRespond |-> TRUE]

\* PersonalityEngine::initialize / initializeMessageBank: push_back of the catalog
initialize(p) ==
    [p EXCEPT !.messageBank = [t \in ResponseType |-> p.messageBank[t] \o Catalog(t)]]

\* PersonalityEngine::setMood
setMood(p, mood) ==
    IF p.currentMood # mood THEN [p EXCEPT !.currentMood = mood] ELSE p

\* escalateCareLevel jumping straight to the top level
\* escalateCareLevel without the test of CARE_WORRIED
escalateCareLevel_Unbounded(p) ==
    [p EXCEPT !.currentCareLevel = p.currentCareLevel + 1]

escalateCareLevel_ToWorried(p) ==
    IF p.currentCareLevel < CARE_WORRIED
    THEN [p EXCEPT !.currentCareLevel = CARE_WORRIED]
    ELSE p

\* PersonalityEngine::escalateCareLevel
escalateCareLevel(p) ==
    IF p.currentCareLevel < CARE_WORRIED
    THEN [p EXCEPT !.currentCareLevel = p.currentCareLevel + 1]
    ELSE p

\* PersonalityEngine::reduceCareLevel
reduceCareLevel(p) ==
    IF p.currentCareLevel > CARE_GENTLE
    THEN [p EXCEPT !.currentCareLevel = p.currentCareLevel - 1]
    ELSE p

\* updateMood with the de-escalation threshold 0.3 taken as 0.5
updateMood_EscalateAboveHalf(p, behavior) ==
    LET urgency == calculateCaringUrgency(behavior)
        p2 == setMood(p, behaviorToMood(behavior))
    IN  IF F32GtTenths(urgency, 5) /\ p2.currentCareLevel < CARE_WORRIED
        THEN escalateCareLevel(p2)
        ELSE IF F32LtTenths(urgency, 3) /\ p2.currentCareLevel > CARE_GENTLE
        THEN reduceCareLevel(p2)
        ELSE p2

updateMood_ReduceBelowHalf(p, behavior) ==
    LET urgency == calculateCaringUrgency(behavior)
        p2 == setMood(p, behaviorToMood(behavior))
    IN  IF F32GtTenths(urgency, 7) /\ p2.currentCareLevel < CARE_WORRIED
        THEN escalateCareLevel(p2)
        ELSE IF F32LtTenths(urgency, 5) /\ p2.currentCareLevel > CARE_GENTLE
        THEN reduceCareLevel(p2)
        ELSE p2

\* PersonalityEngine::updateMood
updateMood(p, behavior) ==
    LET urgency == calculateCaringUrgency(behavior)
        p2 == setMood(p, behaviorToMood(behavior))
    IN  IF F32GtTenths(urgency, 7) /\ p2.currentCareLevel < CARE_WORRIED
        THEN escalateCareLevel(p2)
        ELSE IF F32LtTenths(urgency, 3) /\ p2.currentCareLevel > CARE_GENTLE
        THEN reduceCareLevel(p2)
        ELSE p2

\* adaptToUser with the two weights of the moving average exchanged
adaptToUser_WeightsSwapped(p, type, effectiveness) ==
    IF type < RESPONSE_COUNT
    THEN [p EXCEPT !.userPreferences[type] =
             (p.userPreferences[type] * p.adaptationRate
                + effectiveness * (RateDen - p.adaptationRate)) \div RateDen]
    ELSE p

\* adaptToUser moving the preference of every response type
adaptToUser_EveryType(p, type, effectiveness) ==
    IF type < RESPONSE_COUNT
    THEN [p EXCEPT !.userPreferences =
             [t \in ResponseType |->
                 (p.userPreferences[t] * (RateDen - p.adaptationRate)
                    + effectiveness * p.adaptationRate) \div RateDen]]
    ELSE p

\* PersonalityEngine::adaptToUser; effectiveness in units of 1/PrefOne
adaptToUser(p, type, effectiveness) ==
    IF type < RESPONSE_COUNT
    THEN [p EXCEPT !.userPreferences[type] =
             (p.userPreferences[type] * (RateDen - p.adaptationRate)
                + effectiveness * p.adaptationRate) \div RateDen]
    ELSE p

\* the update of userPreferences[type] is exact in units of 1/PrefOne
CanAdapt(p, type, effectiveness) ==
    (p.userPreferences[type] * (RateDen - p.adaptationRate)
        + effectiveness * p.adaptationRate) % RateDen = 0

\* PersonalityEngine::setAdaptationRate (personality_engine.h:147); rate
\* in units of 1/RateDen
setAdaptationRate(p, rate) == [p EXCEPT !.adaptationRate = rate]

\* recordUserResponse that leaves consecutiveIgnored as it was
recordUserResponse_NoReset(p, responseType, effective) ==
    LET p1 == [p EXCEPT !.history.userResponded = TRUE]
        p2 == IF p1.learningEnabled
              THEN adaptToUser(p1, responseType, IF effective THEN PrefOne ELSE 0)
              ELSE p1
    IN  IF effective /\ p2.currentCareLevel > CARE_GENTLE
        THEN reduceCareLevel(p2)
        ELSE p2

\* PersonalityEngine::recordUserResponse
\* recordUserResponse that reduces the care level at any response
recordUserResponse_AnyResponseReduces(p, responseType, effective) ==
    LET p1 == [p EXCEPT !.history.userResponded = TRUE,
                        !.history.consecutiveIgnored = 0]
        p2 == IF p1.learningEnabled
              THEN adaptToUser(p1, responseType, IF effective THEN PrefOne ELSE 0)
              ELSE p1
    IN  IF p2.currentCareLevel > CARE_GENTLE
        THEN reduceCareLevel(p2)
        ELSE p2

recordUserResponse(p, responseType, effective) ==
    LET p1 == [p EXCEPT !.history.userResponded = TRUE,
                        !.history.consecutiveIgnored = 0]
        p2 == IF p1.learningEnabled
              THEN adaptToUser(p1, responseType, IF effective THEN PrefOne ELSE 0)
              ELSE p1
    IN  IF effective /\ p2.currentCareLevel > CARE_GENTLE
        THEN reduceCareLevel(p2)
        ELSE p2

\* recordUserIgnored escalating only after more than three ignored reminders
recordUserIgnored_AfterThree(p, responseType) ==
    LET p1 == [p EXCEPT !.history.userResponded = FALSE,
                        !.history.consecutiveIgnored = @ + 1]
        p2 == IF p1.learningEnabled
              THEN adaptToUser(p1, responseType, PrefOne \div 5)
              ELSE p1
    IN  IF p2.history.consecutiveIgnored > 3 /\ p2.currentCareLevel < CARE_WORRIED
        THEN escalateCareLevel(p2)
        ELSE p2

\* PersonalityEngine::recordUserIgnored
\* recordUserIgnored that starts counting again once it has escalated
recordUserIgnored_ResetOnEscalation(p, responseType) ==
    LET p1 == [p EXCEPT !.history.userResponded = FALSE,
                        !.history.consecutiveIgnored = @ + 1]
        p2 == IF p1.learningEnabled
              THEN adaptToUser(p1, responseType, PrefOne \div 5)
              ELSE p1
    IN  IF p2.history.consecutiveIgnored >= 3 /\ p2.currentCareLevel < CARE_WORRIED
        THEN [escalateCareLevel(p2) EXCEPT !.history.consecutiveIgnored = 0]
        ELSE p2

recordUserIgnored(p, responseType) ==
    LET p1 == [p EXCEPT !.history.userResponded = FALSE,
                        !.history.consecutiveIgnored = @ + 1]
        p2 == IF p1.learningEnabled
              THEN adaptToUser(p1, responseType, PrefOne \div 5)
              ELSE p1
    IN  IF p2.history.consecutiveIgnored >= 3 /\ p2.currentCareLevel < CARE_WORRIED
        THEN escalateCareLevel(p2)
        ELSE p2

\* PersonalityEngine::queueMessage(const String&)
\* queueMessage(const String&) that still accepts a message at the limit
queueMessage_LimitIncluded(p, message) ==
    IF Len(p.messageQueue) <= 10
    THEN [p EXCEPT !.messageQueue = Append(@, message)]
    ELSE p

queueMessage(p, message) ==
    IF Len(p.messageQueue) < 10
    THEN [p EXCEPT !.messageQueue = Append(@, message)]
    ELSE p

\* PersonalityEngine::getNextMessage
getNextMessage(p) ==
    IF p.messageQueue = << >>
    THEN [p |-> p, text |-> << >>]
    ELSE [p |-> [p EXCEPT !.messageQueue = Tail(@)], text |-> Head(p.messageQueue)]

\* PersonalityEngine::enableResponses
enableResponses(p, enable) == [p EXCEPT !.canRespond = enable]

\* canRespondNow letting a response through when exactly the cooldown has passed
canRespondNow_AtCooldown(p, millis) ==
    p.canRespond /\ (millis - p.lastMessageTime >= p.responseCooldown)

\* PersonalityEngine::canRespondNow
canRespondNow(p, millis) ==
    p.canRespond /\ (millis - p.lastMessageTime > p.responseCooldown)

(* selectBestMessage's score is a float sum of 0.4, 0.3, minutes * 0.2 and *)
(* 1/(useCount+1).  It is held exactly, in units of 1/ScoreScale: 21 units *)
(* per millisecond since last use, and ScoreScale/(useCount+1), which is   *)
(* whole up to useCount 9.  With times in whole seconds two scores that    *)
(* differ differ by at least 500 units (8e-5), far above the rounding of a *)
(* float below 16, so the comparison of the floats is the comparison here. *)
ScoreScale == 6300000

\* selectBestMessage's score with 0.3 for the care level and 0.4 for the mood
messageScore_MoodOverCare(message, p, millis) ==
    (IF message.careLevel = p.currentCareLevel THEN (ScoreScale \div 10) * 3 ELSE 0)
    + (IF message.mood = p.currentMood THEN (ScoreScale \div 10) * 4 ELSE 0)
    + (millis - message.timestamp) * (ScoreScale \div 300000)
    + ScoreScale \div (message.useCount + 1)

messageScore(message, p, millis) ==
    (IF message.careLevel = p.currentCareLevel THEN (ScoreScale \div 10) * 4 ELSE 0)
    + (IF message.mood = p.currentMood THEN (ScoreScale \div 10) * 3 ELSE 0)
    + (millis - message.timestamp) * (ScoreScale \div 300000)
    + ScoreScale \div (message.useCount + 1)

\* selectBestMessage replacing the best message at an equal score too
selectBestMessage_LastOfEqual(p, type, millis) ==
    IF type >= RESPONSE_COUNT \/ p.messageBank[type] = << >>
    THEN 0
    ELSE LET messages == p.messageBank[type]
             score(i) == messageScore(messages[i], p, millis)
         IN  CHOOSE i \in 1..Len(messages) :
                 /\ \A j \in 1..Len(messages) : score(j) <= score(i)
                 /\ \A j \in (i + 1)..Len(messages) : score(j) < score(i)

\* PersonalityEngine::selectBestMessage: the index in messageBank[type] of the
\* message returned, 0 for nullptr.  bestScore starts at -1 and a message
\* replaces the best only with a strictly larger score.
selectBestMessage(p, type, millis) ==
    IF type >= RESPONSE_COUNT \/ p.messageBank[type] = << >>
    THEN 0
    ELSE LET messages == p.messageBank[type]
             score(i) == messageScore(messages[i], p, millis)
         IN  CHOOSE i \in 1..Len(messages) :
                 /\ \A j \in 1..Len(messages) : score(j) <= score(i)
                 /\ \A j \in 1..(i - 1) : score(j) < score(i)

\* PersonalityEngine::personalizeMessage
personalizeMessage(p, baseMessage) ==
    [i \in 1..Len(baseMessage) |->
        IF baseMessage[i] = "{name}" THEN p.userName ELSE baseMessage[i]]

\* generateCaringResponse(ResponseType) counting the use and leaving the
\* message's timestamp
generateCaringResponse_KeepTimestamp(p, type, millis) ==
    IF ~canRespondNow(p, millis)
    THEN [p |-> p, text |-> << >>]
    ELSE LET i == selectBestMessage(p, type, millis)
         IN  IF i = 0
             THEN [p |-> p, text |-> FallbackMessage]
             ELSE [p |-> [p EXCEPT !.messageBank[type][i].useCount = @ + 1,
                                   !.lastMessageTime = millis,
                                   !.history.lastResponseType = type,
                                   !.history.lastResponseTime = millis,
                                   !.history.userResponded = FALSE],
                   text |-> personalizeMessage(p, p.messageBank[type][i].text)]

\* generateCaringResponse that notes the request in the history before it
\* looks at the cooldown
generateCaringResponse_HistoryFirst(p, type, millis) ==
    LET noted == [p EXCEPT !.history.lastResponseType = type,
                           !.history.lastResponseTime = millis]
    IN  IF ~canRespondNow(p, millis)
        THEN [p |-> noted, text |-> << >>]
        ELSE LET i == selectBestMessage(p, type, millis)
             IN  IF i = 0
                 THEN [p |-> noted, text |-> FallbackMessage]
                 ELSE [p |-> [noted EXCEPT !.messageBank[type][i].useCount = @ + 1,
                                           !.messageBank[type][i].timestamp = millis,
                                           !.lastMessageTime = millis,
                                           !.history.userResponded = FALSE],
                       text |-> personalizeMessage(p, p.messageBank[type][i].text)]

\* PersonalityEngine::generateCaringResponse(ResponseType)
generateCaringResponse(p, type, millis) ==
    IF ~canRespondNow(p, millis)
    THEN [p |-> p, text |-> << >>]
    ELSE LET i == selectBestMessage(p, type, millis)
         IN  IF i = 0
             THEN [p |-> p, text |-> FallbackMessage]
             ELSE [p |-> [p EXCEPT !.messageBank[type][i].useCount = @ + 1,
                                   !.messageBank[type][i].timestamp = millis,
                                   !.lastMessageTime = millis,
                                   !.history.lastResponseType = type,
                                   !.history.lastResponseTime = millis,
                                   !.history.userResponded = FALSE],
                   text |-> personalizeMessage(p, p.messageBank[type][i].text)]

\* queueMessage(ResponseType)
queueResponse(p, type, millis) ==
    LET message == generateCaringResponse(p, type, millis)
    IN  IF message.text # << >>
        THEN queueMessage(message.p, message.text)
        ELSE message.p

\* generateUrgentResponse that escalates once it knows it can respond
generateUrgentResponse_CooldownFirst(p, millis) ==
    IF canRespondNow(p, millis)
    THEN generateCaringResponse(escalateCareLevel(p), RESPONSE_CONCERN, millis)
    ELSE [p |-> p, text |-> << >>]

\* PersonalityEngine::generateUrgentResponse
generateUrgentResponse(p, millis) ==
    generateCaringResponse(escalateCareLevel(p), RESPONSE_CONCERN, millis)

\* the chain of generateContextualResponse with the posture test first
contextualResponseType_PostureFirst(behavior) ==
    IF behavior.needsPostureAdjustment THEN RESPONSE_POSTURE
    ELSE IF behavior.needsMovement THEN RESPONSE_MOVEMENT
    ELSE IF behavior.needsHydration THEN RESPONSE_HYDRATION
    ELSE IF behavior.needsEncouragement THEN RESPONSE_ENCOURAGEMENT
    ELSE RESPONSE_ENCOURAGEMENT

\* the ResponseType PersonalityEngine::generateContextualResponse asks for
contextualResponseType(behavior) ==
    IF behavior.needsHydration THEN RESPONSE_HYDRATION
    ELSE IF behavior.needsMovement THEN RESPONSE_MOVEMENT
    ELSE IF behavior.needsPostureAdjustment THEN RESPONSE_POSTURE
    ELSE IF behavior.needsEncouragement THEN RESPONSE_ENCOURAGEMENT
    ELSE RESPONSE_ENCOURAGEMENT

\* PersonalityEngine::generateContextualResponse
generateContextualResponse(p, behavior, millis) ==
    generateCaringResponse(p, contextualResponseType(behavior), millis)

---------------------------------------------------------------------------
(* The sketch (pixel_plant.ino).  Its functions are operators on the       *)
(* record of the globals they read and write; what they ask the hardware   *)
(* and the behaviour monitor is an argument.                               *)

Sketch ==
    [personality |-> personality,
     currentState |-> currentState,
     sleepModeActive |-> sleepModeActive,
     lastReminderCheck |-> lastReminderCheck,
     spoken |-> spoken]

Reminders == {"hydration", "movement", "posture"}

ReminderInterval(c) ==
    CASE c = "hydration" -> HYDRATION_REMINDER_INTERVAL
      [] c = "movement" -> MOVEMENT_REMINDER_INTERVAL
      [] c = "posture" -> POSTURE_REMINDER_INTERVAL

\* BehaviorMonitor::isHydrationReminderDue, isMovementReminderDue and
\* isPostureReminderDue: const methods declared in behavior_monitor.h and
\* defined nowhere; a reminder is due when its interval (minutes) has passed
\* since lastHydrationReminder, lastMovementReminder or lastPostureReminder,
\* which start at 0 and which only resetHydrationTimer, resetMovementTimer
\* and resetPostureTimer could move: the sketch calls none of them
\* and the behaviour monitor sees the matching need (flagged)
isReminderDue(c, millis, flagged) ==
    /\ millis - 0 >= ReminderInterval(c) * 60000
    /\ c \in flagged

RemindersDue(millis, flagged) == {c \in Reminders : isReminderDue(c, millis, flagged)}

\* hardware.audio.speakMessage(message)
speakMessage(sys, message) == [sys EXCEPT !.spoken = Append(@, message)]

HydrationReminder == <<"Hey there! You need to hydrate!">>
MovementReminder == <<"How about a stretch? Take a walk!">>
PostureReminder == <<"Time to adjust that posture! Stretch it out!">>

\* PersonalityEngine::processObservation: declared in personality_engine.h,
\* defined nowhere; taken as the behaviour evaluation of the escalation
\* state machine, which is updateMood
processObservation(p, behavior) == updateMood(p, behavior)

\* transitionToCaring
\* transitionToCaring that does not look at the urgent threshold
transitionToCaring_AlwaysCaring(sys, behavior) ==
    [sys EXCEPT !.personality = setMood(@, MOOD_CARING),
                !.currentState = SYSTEM_CARING]

transitionToCaring(sys, behavior) ==
    IF behavior.inactivityMinutes > URGENT_INACTIVITY_THRESHOLD
    THEN [sys EXCEPT !.personality = setMood(@, MOOD_WORRIED),
                     !.currentState = SYSTEM_CONCERNED]
    ELSE [sys EXCEPT !.personality = setMood(@, MOOD_CARING),
                     !.currentState = SYSTEM_CARING]

\* checkScheduledReminders; due: the reminders the behaviour monitor reports due
checkScheduledReminders(sys, millis, due) ==
    IF millis - sys.lastReminderCheck > REMINDER_CHECK_INTERVAL
    THEN LET p1 == IF "hydration" \in due
                   THEN queueMessage(sys.personality, HydrationReminder)
                   ELSE sys.personality
             p2 == IF "movement" \in due THEN queueMessage(p1, MovementReminder) ELSE p1
             p3 == IF "posture" \in due THEN queueMessage(p2, PostureReminder) ELSE p2
         IN  [sys EXCEPT !.personality = p3, !.lastReminderCheck = millis]
    ELSE sys

\* runNormalOperation
runNormalOperation(sys, millis, behavior, needsReminder, due) ==
    LET s1 == [sys EXCEPT !.personality = processObservation(@, behavior)]
        s2 == IF needsReminder THEN transitionToCaring(s1, behavior) ELSE s1
    IN  checkScheduledReminders(s2, millis, due)

\* runCaringMode
\* runCaringMode that goes back to SYSTEM_READY once a response was spoken
runCaringMode_UntilSpoken(sys, millis) ==
    LET response == generateCaringResponse(sys.personality, RESPONSE_ENCOURAGEMENT, millis)
    IN  [speakMessage(sys, response.text) EXCEPT
             !.personality = response.p,
             !.currentState = IF response.text # << >> THEN SYSTEM_READY
                              ELSE SYSTEM_CARING]

runCaringMode(sys, millis) ==
    LET response == generateCaringResponse(sys.personality, RESPONSE_ENCOURAGEMENT, millis)
    IN  [speakMessage(sys, response.text) EXCEPT !.personality = response.p,
                                                 !.currentState = SYSTEM_READY]

\* runConcernedMode
runConcernedMode(sys, millis, hasUserResponded) ==
    LET urgentResponse == generateUrgentResponse(sys.personality, millis)
        s1 == IF sys.personality.currentMood = MOOD_WORRIED
              THEN [speakMessage(sys, urgentResponse.text) EXCEPT
                        !.personality = urgentResponse.p]
              ELSE sys
    IN  IF hasUserResponded
        THEN [s1 EXCEPT !.personality = setMood(@, MOOD_HAPPY),
                        !.currentState = SYSTEM_READY]
        ELSE s1

\* wakeFromSleep without its setMood call
wakeFromSleep_KeepMood(sys) ==
    [sys EXCEPT !.sleepModeActive = FALSE,
                !.currentState = SYSTEM_READY]

\* wakeFromSleep
wakeFromSleep(sys) ==
    [sys EXCEPT !.sleepModeActive = FALSE,
                !.personality = setMood(@, MOOD_HAPPY),
                !.currentState = SYSTEM_READY]

\* runSleepMode
\* runSleepMode that sets the sleep mode after the motion check
runSleepMode_SleepModeLast(sys, motionDetected) ==
    LET s1 == IF motionDetected THEN wakeFromSleep(sys) ELSE sys
    IN  [s1 EXCEPT !.sleepModeActive = TRUE]

runSleepMode(sys, motionDetected) ==
    LET s1 == [sys EXCEPT !.sleepModeActive = TRUE]
    IN  IF motionDetected THEN wakeFromSleep(s1) ELSE s1

\* runErrorRecovery
runErrorRecovery(sys, millis, reinitialized) ==
    IF millis % 30000 = 0 /\ reinitialized
    THEN [sys EXCEPT !.currentState = SYSTEM_READY]
    ELSE sys

\* systemHeartbeat
systemHeartbeat(sys, overTemperature) ==
    IF overTemperature
    THEN [sys EXCEPT !.personality = setMood(@, MOOD_CONCERNED)]
    ELSE sys

SerialCommands == {"", "status", "test", "sleep", "wake", "say hello", "dance"}

\* handleSerialCommands; command "" when nothing is available on Serial
\* handleSerialCommands that reads Serial only outside SYSTEM_ERROR
handleSerialCommands_NotInError(sys, command) ==
    IF sys.currentState = SYSTEM_ERROR THEN sys
    ELSE IF command = "sleep" THEN [sys EXCEPT !.currentState = SYSTEM_SLEEPING]
    ELSE IF command = "wake" THEN wakeFromSleep(sys)
    ELSE IF command = "say hello" THEN speakMessage(sys, <<"hello">>)
    ELSE sys

handleSerialCommands(sys, command) ==
    IF command = "sleep" THEN [sys EXCEPT !.currentState = SYSTEM_SLEEPING]
    ELSE IF command = "wake" THEN wakeFromSleep(sys)
    ELSE IF command = "say hello" THEN speakMessage(sys, <<"hello">>)
    ELSE sys

\* handleImmediateTasks
\* handleImmediateTasks that speaks a queued message only while the engine
\* may respond
handleImmediateTasks_WhenCanRespond(sys, command) ==
    LET message == getNextMessage(sys.personality)
        s1 == IF sys.personality.messageQueue # << >> /\ sys.personality.canRespond
              THEN [speakMessage(sys, message.text) EXCEPT !.personality = message.p]
              ELSE sys
    IN  handleSerialCommands(s1, command)

handleImmediateTasks(sys, command) ==
    LET message == getNextMessage(sys.personality)
        s1 == IF sys.personality.messageQueue # << >>
              THEN [speakMessage(sys, message.text) EXCEPT !.personality = message.p]
              ELSE sys
    IN  handleSerialCommands(s1, command)

---------------------------------------------------------------------------
(* History.  lastCall records the most recent call: which method, its      *)
(* arguments, what it returned and what the engine held before it.  `band` *)
(* is the number of inactivity thresholds (30/60/120 min) that the         *)
(* inactivityMinutes of the latest behaviour evaluation exceeded, and      *)
(* `crossed` how many more that is than at the evaluation before it.       *)
(* `urgency` is where the evaluation's caring urgency fell: "low" below    *)
(* 0.3, "high" above 0.7, "mid" between.                                   *)
(* `mood` is the mood behaviorToMood gives the latest snapshot evaluated,   *)
(* `lastSpoke` the millis() of the latest call before this one that        *)
(* returned a non-empty String (-1 for none) and `needs` the needs set in  *)
(* the snapshot the call was given.  selected[type] records the latest     *)
(* selection from messageBank[type].                                       *)

InactivityBand(minutes) ==
    IF minutes > URGENT_INACTIVITY_THRESHOLD THEN 3
    ELSE IF minutes > CONCERNED_INACTIVITY_THRESHOLD THEN 2
    ELSE IF minutes > NORMAL_INACTIVITY_THRESHOLD THEN 1
    ELSE 0

Crossed(band, minutes) ==
    IF InactivityBand(minutes) > band THEN InactivityBand(minutes) - band ELSE 0

UrgencyClass(urgency) ==
    IF F32GtTenths(urgency, 7) THEN "high"
    ELSE IF F32LtTenths(urgency, 3) THEN "low"
    ELSE "mid"

\* BehaviorData as its constructor leaves it
NoBehavior ==
    [inactivityMinutes |-> 0, needsHydration |-> FALSE, needsMovement |-> FALSE,
     needsPostureAdjustment |-> FALSE, needsEncouragement |-> FALSE,
     needsSupport |-> FALSE, hasPositiveBehavior |-> FALSE]

NoSelection == [text |-> << >>, tied |-> FALSE, care |-> CARE_GENTLE, mood |-> MOOD_HAPPY]

NoCall ==
    [op |-> "none", type |-> RESPONSE_GREETING, effective |-> FALSE,
     care |-> CARE_GENTLE, mood |-> MOOD_HAPPY, ignored |-> 0,
     urgency |-> "none", band |-> 0, crossed |-> 0,
     millis |-> 0, could |-> FALSE, index |-> 0, text |-> << >>,
     previous |-> NoSelection, lastSpoke |-> -1, needs |-> {},
     scenario |-> TRUE, high |-> 0, minutes |-> 0,
     top |-> {}, least |-> {}, snapshot |-> NoBehavior,
     celebrating |-> FALSE, queued |-> 0,
     command |-> "", stateBefore |-> SYSTEM_INITIALIZING, run |-> 0]

\* The hydration escalation scenario: from the initialized engine, every
\* call so far evaluated a snapshot whose only need is hydration and whose
\* inactivity is not below the one evaluated before, or recorded an ignored
\* reminder.  high counts (up to MaxHigh) the evaluations beyond
\* CONCERNED_INACTIVITY_THRESHOLD and minutes is the inactivity evaluated
\* last.
MaxHigh == 2

InScenario(behavior) ==
    /\ lastCall.scenario
    /\ behavior.needsHydration
    /\ ~behavior.needsMovement /\ ~behavior.needsPostureAdjustment
    /\ ~behavior.needsSupport /\ ~behavior.hasPositiveBehavior
    /\ behavior.inactivityMinutes >= lastCall.minutes

Evaluated(call, behavior) ==
    IF InScenario(behavior)
    THEN [call EXCEPT
              !.snapshot = behavior,
              !.celebrating = (personality.currentMood = MOOD_CELEBRATING),
              !.scenario = TRUE,
              !.high = IF /\ behavior.inactivityMinutes > CONCERNED_INACTIVITY_THRESHOLD
                          /\ lastCall.high < MaxHigh
                       THEN lastCall.high + 1 ELSE lastCall.high,
              !.minutes = behavior.inactivityMinutes]
    ELSE [call EXCEPT !.snapshot = behavior,
                      !.celebrating = (personality.currentMood = MOOD_CELEBRATING)]

Ignored(call) ==
    IF lastCall.scenario
    THEN [call EXCEPT !.scenario = TRUE, !.high = lastCall.high,
                      !.minutes = lastCall.minutes]
    ELSE call

\* a call of method op on engine p: what the engine held before the call
Call(op, p) ==
    [NoCall EXCEPT !.op = op,
                   !.scenario = FALSE,
                   !.care = p.currentCareLevel,
                   !.ignored = p.history.consecutiveIgnored,
                   !.band = lastCall.band,
                   !.mood = lastCall.mood,
                   !.millis = now,
                   !.lastSpoke = IF lastCall.text # << >> THEN lastCall.millis
                                 ELSE lastCall.lastSpoke]

---------------------------------------------------------------------------
(* Spec: the escalation state machine.  The engine is constructed and      *)
(* initialized, learning is left enabled or switched off with              *)
(* enableLearning(false), and the engine's operations are called in any    *)
(* order at millis() 0, before the first response cooldown has passed      *)
(* (SpecSelect moves the clock).  With learning enabled an outcome is      *)
(* recorded while userPreferences can hold the result exactly.             *)

\* The snapshots evaluated.  The needs decide the urgency and
\* needsSupport/hasPositiveBehavior the mood: a snapshot varies the one or
\* the other; updateMood does not read needsEncouragement.
EvaluatedBehaviors ==
    {b \in BehaviorData :
        /\ ~b.needsEncouragement
        /\ \/ ~b.needsSupport /\ ~b.hasPositiveBehavior
           \/ ~b.needsHydration /\ ~b.needsMovement /\ ~b.needsPostureAdjustment}

\* the response types outcomes are recorded for
OutcomeTypes == {RESPONSE_HYDRATION}

EngineUnchanged ==
    UNCHANGED <<currentState, sleepModeActive, loopPhase, lastUpdateTime,
                lastHeartbeat, lastReminderCheck, loops, spoken, reminded>>

Init ==
    /\ \E enable \in BOOLEAN :
           personality = [initialize(PersonalityEngine) EXCEPT !.learningEnabled = enable]
    /\ now = 0
    /\ currentState = SYSTEM_READY
    /\ sleepModeActive = FALSE
    /\ loopPhase = "heartbeat"
    /\ lastUpdateTime = 0
    /\ lastHeartbeat = 0
    /\ lastReminderCheck = 0
    /\ loops = 0
    /\ spoken = << >>
    /\ reminded = [c \in Reminders |-> <<-1, -1>>]
    /\ lastCall = NoCall
    /\ selected = [t \in ResponseType |-> NoSelection]

\* personality.updateMood(behavior)
UpdateMood ==
    \E behavior \in EvaluatedBehaviors :
        /\ personality' = updateMood(personality, behavior)
        /\ lastCall' = Evaluated(
                           [Call("updateMood", personality) EXCEPT
                                !.band = InactivityBand(behavior.inactivityMinutes),
                                !.mood = behaviorToMood(behavior),
                                !.crossed = Crossed(lastCall.band, behavior.inactivityMinutes),
                                !.urgency = UrgencyClass(calculateCaringUrgency(behavior))],
                           behavior)
        /\ UNCHANGED <<now, selected>>
        /\ EngineUnchanged

\* personality.recordUserResponse(responseType, effective)
RecordUserResponse ==
    \E responseType \in OutcomeTypes, effective \in BOOLEAN :
        /\ personality.learningEnabled =>
               CanAdapt(personality, responseType, IF effective THEN PrefOne ELSE 0)
        /\ personality' = recordUserResponse(personality, responseType, effective)
        /\ lastCall' = [Call("recordUserResponse", personality) EXCEPT
                            !.type = responseType, !.effective = effective]
        /\ UNCHANGED <<now, selected>>
        /\ EngineUnchanged

\* personality.recordUserIgnored(responseType)
RecordUserIgnored ==
    \E responseType \in OutcomeTypes :
        /\ personality.history.consecutiveIgnored < MaxIgnored
        /\ personality.learningEnabled =>
               CanAdapt(personality, responseType, PrefOne \div 5)
        /\ personality' = recordUserIgnored(personality, responseType)
        /\ lastCall' = Ignored([Call("recordUserIgnored", personality) EXCEPT
                                     !.type = responseType])
        /\ UNCHANGED <<now, selected>>
        /\ EngineUnchanged

\* the messages of messageBank[type] that no message outscores at millis,
\* and those of them that were used least
TopScored(p, type, millis) ==
    LET messages == p.messageBank[type]
    IN  {i \in 1..Len(messages) :
            \A j \in 1..Len(messages) :
                messageScore(messages[j], p, millis) <= messageScore(messages[i], p, millis)}

LeastUsed(p, type, millis) ==
    LET messages == p.messageBank[type]
        top == TopScored(p, type, millis)
    IN  {i \in top : \A j \in top : messages[i].useCount <= messages[j].useCount}

\* what a call of generateCaringResponse(type) on engine p (p0 before the
\* caller's own changes) leaves in the history
Responded(op, p0, p, type, needs, r) ==
    LET i == selectBestMessage(p, type, now)
        messages == p.messageBank[type]
        top == {j \in 1..Len(messages) :
                   messageScore(messages[j], p, now) = messageScore(messages[i], p, now)}
        chosen == canRespondNow(p, now) /\ i # 0
    IN  /\ lastCall' = [Call(op, p0) EXCEPT
                            !.type = type,
                            !.could = canRespondNow(p, now),
                            !.index = IF chosen THEN i ELSE 0,
                            !.text = r.text,
                            !.previous = selected[type],
                            !.needs = needs,
                            !.top = IF chosen THEN TopScored(p, type, now) ELSE {},
                            !.least = IF chosen THEN LeastUsed(p, type, now) ELSE {}]
        /\ selected' = IF chosen
                       THEN [selected EXCEPT ![type] =
                                [text |-> r.text, tied |-> Cardinality(top) >= 2,
                                 care |-> p.currentCareLevel, mood |-> p.currentMood]]
                       ELSE selected

\* personality.generateUrgentResponse()
GenerateUrgentResponse ==
    LET r == generateUrgentResponse(personality, now)
    IN  /\ personality' = r.p
        /\ Responded("generateUrgentResponse", personality,
                     escalateCareLevel(personality), RESPONSE_CONCERN, {}, r)
        /\ UNCHANGED now
        /\ EngineUnchanged

Next ==
    \/ UpdateMood
    \/ RecordUserResponse
    \/ RecordUserIgnored
    \/ GenerateUrgentResponse

Spec == Init /\ [][Next]_vars

---------------------------------------------------------------------------
(* SpecSelect: the response selector under the clock.  millis() advances   *)
(* in steps that land on the end of the cooldown and just after it; a     *)
(* response is asked for by type; behaviour evaluations move the mood and  *)
(* the care level the scores depend on; enableResponses switches responses *)
(* on and off.                                                             *)

SelectSteps == {RESPONSE_COOLDOWN, RESPONSE_COOLDOWN + 1}

\* the types generateCaringResponse is asked for directly: banks that hold
\* messages and banks that stay empty
SelectTypes == {RESPONSE_HYDRATION, RESPONSE_CONCERN, RESPONSE_BREAK}

\* the snapshots evaluated between selections
SelectBehaviors ==
    {b \in BehaviorData :
        /\ b.inactivityMinutes \in {0, 121}
        /\ b.needsHydration = b.needsMovement
        /\ ~b.needsPostureAdjustment /\ ~b.needsEncouragement
        /\ ~b.needsSupport /\ ~b.hasPositiveBehavior}

\* the snapshots a contextual response is asked for
ContextBehaviors ==
    {b \in BehaviorData :
        b.inactivityMinutes = 0 /\ ~b.needsSupport /\ ~b.hasPositiveBehavior}

Needs(behavior) ==
    {n \in {"hydration", "movement", "posture", "encouragement"} :
        \/ n = "hydration" /\ behavior.needsHydration
        \/ n = "movement" /\ behavior.needsMovement
        \/ n = "posture" /\ behavior.needsPostureAdjustment
        \/ n = "encouragement" /\ behavior.needsEncouragement}

InitSelect == Init /\ personality.learningEnabled

\* millis() moves on
Elapse ==
    \E d \in SelectSteps :
        /\ now + d <= MaxUptimeSec * 1000
        /\ now' = now + d
        /\ UNCHANGED <<personality, lastCall, selected>>
        /\ EngineUnchanged

\* personality.updateMood(behavior), between selections
EvaluateBehavior ==
    \E behavior \in SelectBehaviors :
        /\ personality' = updateMood(personality, behavior)
        /\ lastCall' = [Call("updateMood", personality) EXCEPT
                            !.band = InactivityBand(behavior.inactivityMinutes),
                            !.mood = behaviorToMood(behavior),
                            !.crossed = Crossed(lastCall.band, behavior.inactivityMinutes),
                            !.urgency = UrgencyClass(calculateCaringUrgency(behavior))]
        /\ UNCHANGED <<now, selected>>
        /\ EngineUnchanged

\* personality.enableResponses(enable)
EnableResponses ==
    \E enable \in BOOLEAN :
        /\ personality' = enableResponses(personality, enable)
        /\ lastCall' = Call("enableResponses", personality)
        /\ UNCHANGED <<now, selected>>
        /\ EngineUnchanged

\* personality.generateCaringResponse(type)
GenerateCaringResponse ==
    \E type \in SelectTypes :
        LET r == generateCaringResponse(personality, type, now)
        IN  /\ personality' = r.p
            /\ Responded("generateCaringResponse", personality, personality, type, {}, r)
            /\ UNCHANGED now
            /\ EngineUnchanged

\* personality.generateContextualResponse(behavior)
GenerateContextualResponse ==
    \E behavior \in ContextBehaviors :
        LET r == generateContextualResponse(personality, behavior, now)
        IN  /\ personality' = r.p
            /\ Responded("generateContextualResponse", personality, personality,
                         contextualResponseType(behavior), Needs(behavior), r)
            /\ UNCHANGED now
            /\ EngineUnchanged

NextUrgent ==
    \/ Elapse
    \/ EnableResponses
    \/ RecordUserResponse
    \/ GenerateUrgentResponse

\* urgent responses, with the cooldown running or not, responses enabled
\* or not, and effective responses that bring the care level down again
SpecUrgent == InitSelect /\ [][NextUrgent]_vars

NextSelect ==
    \/ Elapse
    \/ EvaluateBehavior
    \/ EnableResponses
    \/ GenerateCaringResponse

SpecSelect == InitSelect /\ [][NextSelect]_vars

\* SpecContext: responses asked for by behaviour snapshot, under the clock
---------------------------------------------------------------------------
(* SpecTie: selections from the Concern bank, at Concerned mood, by an      *)
(* engine first used TieStart ms after boot.  A message that matches care  *)
(* level and mood (0.7) and was used once (0.5 less), at TieStart, scores  *)
(* from then on what an unused message that matches neither scores.        *)

\* uptime explored by SpecTie, in seconds
MaxTieSec == 76

\* the uptime that the recency term counts as 0.2
TieStart == (2 * (ScoreScale \div 10)) \div (ScoreScale \div 300000)

TieSteps == {RESPONSE_COOLDOWN, RESPONSE_COOLDOWN + 1}

InitTie ==
    /\ personality = initialize(PersonalityEngine)
    /\ now = TieStart
    /\ currentState = SYSTEM_READY
    /\ sleepModeActive = FALSE
    /\ loopPhase = "heartbeat"
    /\ lastUpdateTime = 0
    /\ lastHeartbeat = 0
    /\ lastReminderCheck = 0
    /\ loops = 0
    /\ spoken = << >>
    /\ reminded = [c \in Reminders |-> <<-1, -1>>]
    /\ lastCall = NoCall
    /\ selected = [t \in ResponseType |-> NoSelection]

TieBehaviors ==
    {b \in BehaviorData :
        /\ b.inactivityMinutes = CONCERNED_INACTIVITY_THRESHOLD + 1
        /\ ~b.needsMovement /\ ~b.needsPostureAdjustment /\ ~b.needsEncouragement
        /\ ~b.needsSupport /\ ~b.hasPositiveBehavior}

\* millis() moves on
ElapseTie ==
    \E d \in TieSteps :
        /\ now + d <= MaxTieSec * 1000
        /\ now' = now + d
        /\ UNCHANGED <<personality, lastCall, selected>>
        /\ EngineUnchanged

\* personality.updateMood(behavior), between selections
EvaluateConcerned ==
    \E behavior \in TieBehaviors :
        /\ personality' = updateMood(personality, behavior)
        /\ lastCall' = [Call("updateMood", personality) EXCEPT
                            !.band = InactivityBand(behavior.inactivityMinutes),
                            !.mood = behaviorToMood(behavior),
                            !.crossed = Crossed(lastCall.band, behavior.inactivityMinutes),
                            !.urgency = UrgencyClass(calculateCaringUrgency(behavior))]
        /\ UNCHANGED <<now, selected>>
        /\ EngineUnchanged

\* personality.generateCaringResponse(RESPONSE_CONCERN)
GenerateConcernResponse ==
    LET r == generateCaringResponse(personality, RESPONSE_CONCERN, now)
    IN  /\ personality' = r.p
        /\ Responded("generateCaringResponse", personality, personality,
                     RESPONSE_CONCERN, {}, r)
        /\ UNCHANGED now
        /\ EngineUnchanged

NextTie ==
    \/ ElapseTie
    \/ EvaluateConcerned
    \/ GenerateConcernResponse

SpecTie == InitTie /\ [][NextTie]_vars

---------------------------------------------------------------------------
(* SpecLearn: the preference learner.  The engine is first used when the   *)
(* first response cooldown has passed; outcomes are recorded for one       *)
(* response type at the default and at other adaptation rates, between     *)
(* mood updates, message generations and queue operations.                 *)

\* the rates given to setAdaptationRate, in units of 1/RateDen: the default
\* 0.1, and 2.0
LearnRates == {RateNum, 2 * RateDen}

LearnTypes == {RESPONSE_HYDRATION}

\* the snapshot evaluated between outcomes: the user active, no need
LearnBehaviors ==
    {b \in BehaviorData :
        /\ b.inactivityMinutes = 0
        /\ ~b.needsHydration /\ ~b.needsMovement /\ ~b.needsPostureAdjustment
        /\ ~b.needsEncouragement /\ ~b.needsSupport /\ ~b.hasPositiveBehavior}

\* userPreferences explored by SpecLearn, in units of 1/PrefOne, either side of 0
MaxPreference == 150

\* messages waiting in messageQueue in SpecLearn
MaxQueued == 1

\* reminders ignored in a row in SpecLearn
MaxLearnIgnored == 1

InitLearn ==
    /\ \E enable \in BOOLEAN :
           personality = [initialize(PersonalityEngine) EXCEPT !.learningEnabled = enable]
    /\ now = RESPONSE_COOLDOWN + 1
    /\ currentState = SYSTEM_READY
    /\ sleepModeActive = FALSE
    /\ loopPhase = "heartbeat"
    /\ lastUpdateTime = 0
    /\ lastHeartbeat = 0
    /\ lastReminderCheck = 0
    /\ loops = 0
    /\ spoken = << >>
    /\ reminded = [c \in Reminders |-> <<-1, -1>>]
    /\ lastCall = NoCall
    /\ selected = [t \in ResponseType |-> NoSelection]

\* the result of the update is exact and within the range explored
Learnable(p, type, effectiveness) ==
    /\ CanAdapt(p, type, effectiveness)
    /\ adaptToUser(p, type, effectiveness).userPreferences[type] <= MaxPreference
    /\ adaptToUser(p, type, effectiveness).userPreferences[type] >= -MaxPreference

\* personality.setAdaptationRate(rate)
SetAdaptationRate ==
    \E rate \in LearnRates :
        /\ personality' = setAdaptationRate(personality, rate)
        /\ lastCall' = Call("setAdaptationRate", personality)
        /\ UNCHANGED <<now, selected>>
        /\ EngineUnchanged

\* personality.recordUserResponse(responseType, effective)
LearnResponse ==
    \E responseType \in LearnTypes, effective \in BOOLEAN :
        /\ personality.learningEnabled =>
               Learnable(personality, responseType, IF effective THEN PrefOne ELSE 0)
        /\ personality' = recordUserResponse(personality, responseType, effective)
        /\ lastCall' = [Call("recordUserResponse", personality) EXCEPT
                            !.type = responseType, !.effective = effective]
        /\ UNCHANGED <<now, selected>>
        /\ EngineUnchanged

\* personality.recordUserIgnored(responseType)
LearnIgnored ==
    \E responseType \in LearnTypes :
        /\ personality.history.consecutiveIgnored < MaxLearnIgnored
        /\ personality.learningEnabled =>
               Learnable(personality, responseType, PrefOne \div 5)
        /\ personality' = recordUserIgnored(personality, responseType)
        /\ lastCall' = [Call("recordUserIgnored", personality) EXCEPT
                            !.type = responseType]
        /\ UNCHANGED <<now, selected>>
        /\ EngineUnchanged

\* personality.updateMood(behavior)
LearnEvaluate ==
    \E behavior \in LearnBehaviors :
        /\ personality' = updateMood(personality, behavior)
        /\ lastCall' = [Call("updateMood", personality) EXCEPT
                            !.band = InactivityBand(behavior.inactivityMinutes),
                            !.mood = behaviorToMood(behavior),
                            !.crossed = Crossed(lastCall.band, behavior.inactivityMinutes),
                            !.urgency = UrgencyClass(calculateCaringUrgency(behavior))]
        /\ UNCHANGED <<now, selected>>
        /\ EngineUnchanged

\* personality.generateCaringResponse(type)
LearnGenerate ==
    \E type \in LearnTypes :
        LET r == generateCaringResponse(personality, type, now)
        IN  /\ personality' = r.p
            /\ Responded("generateCaringResponse", personality, personality, type, {}, r)
            /\ UNCHANGED now
            /\ EngineUnchanged

\* personality.queueMessage(message)
LearnQueue ==
    /\ Len(personality.messageQueue) < MaxQueued
    /\ personality' = queueMessage(personality, HydrationReminder)
    /\ lastCall' = Call("queueMessage", personality)
    /\ UNCHANGED <<now, selected>>
    /\ EngineUnchanged

\* personality.getNextMessage()
LearnNextMessage ==
    /\ personality' = getNextMessage(personality).p
    /\ lastCall' = Call("getNextMessage", personality)
    /\ UNCHANGED <<now, selected>>
    /\ EngineUnchanged

NextLearn ==
    \/ SetAdaptationRate
    \/ LearnResponse
    \/ LearnIgnored
    \/ LearnEvaluate
    \/ LearnGenerate
    \/ LearnQueue
    \/ LearnNextMessage

SpecLearn == InitLearn /\ [][NextLearn]_vars

----------------------------------------------------------------------------
(* SpecQueue: messages queued, by text and by response type, and taken.   *)

\* the texts queued
QueueMessages == {HydrationReminder, MovementReminder}

\* personality.queueMessage(message)
QueueMessage ==
    \E message \in QueueMessages :
        /\ personality' = queueMessage(personality, message)
        /\ lastCall' = [Call("queueMessage", personality) EXCEPT
                            !.queued = Len(personality.messageQueue)]
        /\ UNCHANGED <<now, selected>>
        /\ EngineUnchanged

\* personality.queueMessage(type)
QueueResponse ==
    \E type \in LearnTypes :
        /\ personality' = queueResponse(personality, type, now)
        /\ Responded("queueResponse", personality, personality, type, {},
                     generateCaringResponse(personality, type, now))
        /\ UNCHANGED now
        /\ EngineUnchanged

\* personality.getNextMessage()
NextMessage ==
    /\ personality' = getNextMessage(personality).p
    /\ lastCall' = [Call("getNextMessage", personality) EXCEPT
                        !.queued = Len(personality.messageQueue)]
    /\ UNCHANGED <<now, selected>>
    /\ EngineUnchanged

NextQueue ==
    \/ QueueMessage
    \/ QueueResponse
    \/ NextMessage

SpecQueue == InitLearn /\ [][NextQueue]_vars

----------------------------------------------------------------------------
(* SpecQuiet: responses asked for, returned and queued, against the clock  *)
(* and enableResponses.                                                    *)

NextQuiet ==
    \/ Elapse
    \/ EnableResponses
    \/ LearnGenerate
    \/ QueueResponse

SpecQuiet == InitSelect /\ [][NextQuiet]_vars

----------------------------------------------------------------------------
(* SpecPersist: the engine's state saved, and loaded into a fresh engine.  *)

\* savePersonalityState(): the key/value pairs that are kept
savePersonalityState(p) ==
    [careLevel |-> p.currentCareLevel,
     mood |-> p.currentMood,
     consecutiveIgnored |-> p.history.consecutiveIgnored,
     userPreferences |-> p.userPreferences,
     userName |-> p.userName]

\* loadPersonalityState() that leaves consecutiveIgnored as constructed
loadPersonalityState_IgnoredNotRestored(p, stored) ==
    [p EXCEPT !.currentCareLevel = stored.careLevel,
              !.currentMood = stored.mood,
              !.userPreferences = stored.userPreferences,
              !.userName = stored.userName]

\* loadPersonalityState(): every kept pair goes back to its member
loadPersonalityState(p, stored) ==
    [p EXCEPT !.currentCareLevel = stored.careLevel,
              !.currentMood = stored.mood,
              !.history.consecutiveIgnored = stored.consecutiveIgnored,
              !.userPreferences = stored.userPreferences,
              !.userName = stored.userName]

\* the snapshots evaluated before a save: the user active or long inactive
PersistBehaviors ==
    {b \in EvaluatedBehaviors :
        /\ b.inactivityMinutes \in {0, 121}
        /\ ~b.needsMovement /\ ~b.needsPostureAdjustment
        /\ ~b.needsSupport /\ ~b.hasPositiveBehavior}

\* personality.updateMood(behavior)
PersistEvaluate ==
    \E behavior \in PersistBehaviors :
        /\ personality' = updateMood(personality, behavior)
        /\ lastCall' = [Call("updateMood", personality) EXCEPT
                            !.band = InactivityBand(behavior.inactivityMinutes),
                            !.mood = behaviorToMood(behavior),
                            !.crossed = Crossed(lastCall.band, behavior.inactivityMinutes),
                            !.urgency = UrgencyClass(calculateCaringUrgency(behavior))]
        /\ UNCHANGED <<now, selected>>
        /\ EngineUnchanged

\* savePersonalityState(), then a new engine: the constructor,
\* initialize() and loadPersonalityState()
SaveAndLoad ==
    /\ lastCall.op # "loadPersonalityState"
    /\ personality' = loadPersonalityState(initialize(PersonalityEngine),
                                           savePersonalityState(personality))
    /\ lastCall' = Call("loadPersonalityState", personality)
    /\ UNCHANGED <<now, selected>>
    /\ EngineUnchanged

NextPersist ==
    \/ PersistEvaluate
    \/ RecordUserResponse
    \/ RecordUserIgnored
    \/ SaveAndLoad

SpecPersist == Init /\ [][NextPersist]_vars

----------------------------------------------------------------------------
(* SpecIgnored: reminders ignored one after the other, with evaluations    *)
(* and responses between the runs, and adaptation rates under which the    *)
(* preferences of a learning engine stay exact.                            *)

\* reminders ignored in a row in SpecIgnored
MaxConsecutive == 5

\* how many calls of recordUserIgnored, this one included, have followed
\* one another since the engine was at Gentle with nothing ignored; 0 when
\* this call is not part of such a run
IgnoredFromGentle ==
    IF /\ personality.currentCareLevel = CARE_GENTLE
       /\ personality.history.consecutiveIgnored = 0
    THEN 1
    ELSE IF lastCall.op = "recordUserIgnored" /\ lastCall.run >= 1
    THEN lastCall.run + 1
    ELSE 0

\* personality.recordUserIgnored(responseType)
IgnoredAgain ==
    \E responseType \in OutcomeTypes :
        /\ personality.history.consecutiveIgnored < MaxConsecutive
        /\ personality.learningEnabled =>
               Learnable(personality, responseType, PrefOne \div 5)
        /\ personality' = recordUserIgnored(personality, responseType)
        /\ lastCall' = [Call("recordUserIgnored", personality) EXCEPT
                            !.type = responseType,
                            !.run = IgnoredFromGentle]
        /\ UNCHANGED <<now, selected>>
        /\ EngineUnchanged

NextIgnored ==
    \/ SetAdaptationRate
    \/ IgnoredAgain
    \/ LearnResponse
    \/ PersistEvaluate

SpecIgnored == Init /\ [][NextIgnored]_vars

NextContext ==
    \/ Elapse
    \/ GenerateContextualResponse

SpecContext == InitSelect /\ [][NextContext]_vars

---------------------------------------------------------------------------
(* SpecSystem: the sketch after setup().  One iteration of loop() is three *)
(* steps: the heartbeat, mainUpdate() and handleImmediateTasks() with the  *)
(* delay that ends the iteration.  millis() is read once per iteration;    *)
(* an iteration lasts the 10 ms of its delay, a little over one update     *)
(* interval, or a little over a minute (a blocking speech or test).        *)

SetupDelay == 1000

LoopSteps == {10, UPDATE_INTERVAL + 1, REMINDER_CHECK_INTERVAL + 1}

\* the snapshots behaviorAI.getCurrentBehavior() returns
SystemBehaviors ==
    {b \in BehaviorData :
        /\ b.inactivityMinutes \in {0, 121}
        /\ ~b.needsHydration /\ ~b.needsMovement /\ ~b.needsPostureAdjustment
        /\ ~b.needsEncouragement /\ ~b.needsSupport /\ ~b.hasPositiveBehavior}

CalmBehavior ==
    CHOOSE b \in SystemBehaviors : b.inactivityMinutes = 0

\* a quarter of an hour between two iterations of loop(), in milliseconds,
\* and the quarters of an hour after which the posture reminder and then
\* the hydration reminder have run out
QuietStep == (MOVEMENT_REMINDER_INTERVAL * 60000) \div 4
QuietSteps == {(POSTURE_REMINDER_INTERVAL * 60000) \div QuietStep,
               (HYDRATION_REMINDER_INTERVAL * 60000) \div QuietStep}

\* setup(): with the hardware initialized the engine is initialized and
\* Happy; without, setup returns before personality.initialize()
InitSystem ==
    /\ \E hardwareInitialized \in BOOLEAN :
           IF hardwareInitialized
           THEN /\ personality = setMood(initialize(PersonalityEngine), MOOD_HAPPY)
                /\ currentState = SYSTEM_READY
           ELSE /\ personality = PersonalityEngine
                /\ currentState = SYSTEM_ERROR
    /\ now = SetupDelay
    /\ sleepModeActive = FALSE
    /\ loopPhase = "heartbeat"
    /\ lastUpdateTime = 0
    /\ lastHeartbeat = 0
    /\ lastReminderCheck = 0
    /\ loops = 0
    /\ spoken = << >>
    /\ reminded = [c \in Reminders |-> <<-1, -1>>]
    /\ lastCall = NoCall
    /\ selected = [t \in ResponseType |-> NoSelection]

Assign(after) ==
    /\ personality' = after.personality
    /\ currentState' = after.currentState
    /\ sleepModeActive' = after.sleepModeActive
    /\ lastReminderCheck' = after.lastReminderCheck
    /\ spoken' = after.spoken

\* the reminders that a check at millis fires, in the history
Reminded(sys, millis, flagged) ==
    [c \in Reminders |->
        IF /\ millis - sys.lastReminderCheck > REMINDER_CHECK_INTERVAL
           /\ isReminderDue(c, millis, flagged)
        THEN <<reminded[c][2], millis>>
        ELSE reminded[c]]

\* loop(): a new iteration begins; the heartbeat, when due
LoopHeartbeat ==
    /\ loopPhase = "heartbeat"
    /\ loopPhase' = "update"
    /\ IF now - lastHeartbeat > HEARTBEAT_INTERVAL
       THEN \E overTemperature \in BOOLEAN :
                /\ Assign(systemHeartbeat([Sketch EXCEPT !.spoken = << >>],
                                          overTemperature))
                /\ lastHeartbeat' = now
                /\ lastCall' = Call("systemHeartbeat", personality)
       ELSE /\ spoken' = << >>
            /\ UNCHANGED <<personality, currentState, sleepModeActive,
                           lastReminderCheck, lastHeartbeat, lastCall>>
    /\ UNCHANGED <<now, lastUpdateTime, loops, reminded, selected>>

UpdateDue == loopPhase = "update" /\ now - lastUpdateTime > UPDATE_INTERVAL

Updated ==
    /\ loopPhase' = "tasks"
    /\ lastUpdateTime' = now
    /\ UNCHANGED <<now, lastHeartbeat, loops>>

\* loop(): no update is due
SkipUpdate ==
    /\ loopPhase = "update"
    /\ ~UpdateDue
    /\ loopPhase' = "tasks"
    /\ UNCHANGED <<personality, now, currentState, sleepModeActive, lastUpdateTime,
                   lastHeartbeat, lastReminderCheck, loops, spoken, reminded,
                   lastCall, selected>>

\* mainUpdate(), case SYSTEM_READY
RunNormalOperation ==
    /\ UpdateDue
    /\ currentState = SYSTEM_READY
    /\ \E behavior \in SystemBehaviors, needsReminder \in BOOLEAN,
          flagged \in SUBSET RemindersDue(now, Reminders) :
           /\ Assign(runNormalOperation(Sketch, now, behavior, needsReminder,
                                        RemindersDue(now, flagged)))
           /\ reminded' = Reminded(Sketch, now, flagged)
           /\ lastCall' = [Call("runNormalOperation", personality) EXCEPT
                               !.snapshot = behavior,
                               !.needs = IF needsReminder THEN {"reminder"} ELSE {},
                               !.band = InactivityBand(behavior.inactivityMinutes),
                               !.mood = behaviorToMood(behavior),
                               !.crossed = Crossed(lastCall.band, behavior.inactivityMinutes),
                               !.urgency = UrgencyClass(calculateCaringUrgency(behavior))]
    /\ UNCHANGED selected
    /\ Updated

\* mainUpdate(), case SYSTEM_CARING
RunCaringMode ==
    /\ UpdateDue
    /\ currentState = SYSTEM_CARING
    /\ Assign(runCaringMode(Sketch, now))
    /\ Responded("runCaringMode", personality, personality, RESPONSE_ENCOURAGEMENT, {},
                 generateCaringResponse(personality, RESPONSE_ENCOURAGEMENT, now))
    /\ UNCHANGED reminded
    /\ Updated

\* mainUpdate(), case SYSTEM_CONCERNED
RunConcernedMode ==
    /\ UpdateDue
    /\ currentState = SYSTEM_CONCERNED
    /\ \E hasUserResponded \in BOOLEAN :
           Assign(runConcernedMode(Sketch, now, hasUserResponded))
    /\ IF personality.currentMood = MOOD_WORRIED
       THEN Responded("runConcernedMode", personality, escalateCareLevel(personality),
                      RESPONSE_CONCERN, {}, generateUrgentResponse(personality, now))
       ELSE /\ lastCall' = Call("runConcernedMode", personality)
            /\ UNCHANGED selected
    /\ UNCHANGED reminded
    /\ Updated

\* mainUpdate(), case SYSTEM_SLEEPING
RunSleepMode ==
    /\ UpdateDue
    /\ currentState = SYSTEM_SLEEPING
    /\ \E motionDetected \in BOOLEAN :
           /\ Assign(runSleepMode(Sketch, motionDetected))
           /\ lastCall' = Call(IF motionDetected THEN "wakeFromSleep" ELSE "runSleepMode",
                               personality)
    /\ UNCHANGED <<selected, reminded>>
    /\ Updated

\* mainUpdate(), case SYSTEM_ERROR
RunErrorRecovery ==
    /\ UpdateDue
    /\ currentState = SYSTEM_ERROR
    /\ \E reinitialized \in BOOLEAN :
           Assign(runErrorRecovery(Sketch, now, reinitialized))
    /\ lastCall' = Call("runErrorRecovery", personality)
    /\ UNCHANGED <<selected, reminded>>
    /\ Updated

\* loop(): handleImmediateTasks() and the delay that ends the iteration
HandleImmediateTasks ==
    /\ loopPhase = "tasks"
    /\ loops < MaxLoops
    /\ \E command \in SerialCommands, d \in LoopSteps :
           /\ Assign(handleImmediateTasks(Sketch, command))
           /\ lastCall' = [Call(IF command = "wake" THEN "wakeFromSleep"
                                ELSE "handleImmediateTasks", personality) EXCEPT
                               !.command = command,
                               !.stateBefore = currentState]
           /\ now' = now + d
    /\ loops' = loops + 1
    /\ loopPhase' = "heartbeat"
    /\ UNCHANGED <<lastUpdateTime, lastHeartbeat, reminded, selected>>

\* one iteration of loop() at millis with the user at the desk and active,
\* no need seen, nothing on Serial and the temperature normal, every timer
\* of loop() having run out
QuietIteration(sys, millis) ==
    LET s1 == systemHeartbeat([sys EXCEPT !.spoken = << >>], FALSE)
        s2 == runNormalOperation(s1, millis, CalmBehavior, FALSE,
                                 RemindersDue(millis, {}))
    IN  handleImmediateTasks(s2, "")

RECURSIVE QuietIterations(_, _, _)
QuietIterations(sys, millis, k) ==
    IF k = 0 THEN sys
    ELSE QuietIterations(QuietIteration(sys, millis), millis + QuietStep, k - 1)

\* loop() runs k times, QuietStep apart, from a READY setup
QuietTime ==
    /\ loopPhase = "heartbeat"
    /\ loops = 0
    /\ currentState = SYSTEM_READY
    /\ \E k \in QuietSteps :
           /\ Assign(QuietIterations(Sketch, now, k))
           /\ now' = now + k * QuietStep
           /\ lastUpdateTime' = now + (k - 1) * QuietStep
           /\ lastHeartbeat' = now + (k - 1) * QuietStep
    /\ lastCall' = [Call("runNormalOperation", personality) EXCEPT
                        !.band = InactivityBand(0),
                        !.mood = behaviorToMood(CalmBehavior),
                        !.crossed = FALSE,
                        !.urgency = UrgencyClass(calculateCaringUrgency(CalmBehavior))]
    /\ loops' = 1
    /\ UNCHANGED <<loopPhase, reminded, selected>>

NextSystem ==
    \/ QuietTime
    \/ LoopHeartbeat
    \/ SkipUpdate
    \/ RunNormalOperation
    \/ RunCaringMode
    \/ RunConcernedMode
    \/ RunSleepMode
    \/ RunErrorRecovery
    \/ HandleImmediateTasks

SpecSystem == InitSystem /\ [][NextSystem]_vars

----------------------------------------------------------------------------
(* SpecSpeak: messages are queued and responses enabled or disabled while  *)
(* loop() runs for ever; of loop() the part that is the same in every      *)
(* system state, handleImmediateTasks(), with the commands on Serial that  *)
(* change the state.  millis() stays within the cooldown of the engine.    *)

\* messages waiting in messageQueue in SpecSpeak
MaxWaiting == 3

SpeakCommands == {"", "sleep", "wake"}

\* personality.queueMessage(message)
Enqueue ==
    /\ Len(personality.messageQueue) < MaxWaiting
    /\ QueueMessage

\* one iteration of loop(): handleImmediateTasks()
TasksIteration ==
    /\ \E command \in SpeakCommands :
           Assign(handleImmediateTasks([Sketch EXCEPT !.spoken = << >>], command))
    /\ lastCall' = [Call("handleImmediateTasks", personality) EXCEPT
                        !.queued = Len(personality.messageQueue),
                        !.could = canRespondNow(personality, now)]
    /\ UNCHANGED <<now, loopPhase, lastUpdateTime, lastHeartbeat, loops,
                   reminded, selected>>

NextSpeak ==
    \/ Enqueue
    \/ EnableResponses
    \/ TasksIteration

\* the Arduino core calls loop() again whenever it returns
SpecSpeak == InitSystem /\ [][NextSpeak]_vars /\ WF_vars(TasksIteration)

----------------------------------------------------------------------------
(* SpecRecovery: setup() has left SYSTEM_ERROR and loop() runs for ever,   *)
(* nothing on Serial, the temperature normal, and hardware.reinitialize()  *)
(* succeeding whenever it is called.  What an iteration does depends on    *)
(* millis() through its distance to lastHeartbeat and lastUpdateTime and   *)
(* through millis() % 30000 only, so the clock and the two timestamps are  *)
(* kept below two recovery periods by taking one period off all three.     *)

\* millis() % 30000 == 0 in runErrorRecovery
RecoveryPeriod == 30000

\* the time one iteration of loop() takes: delay(10), and the heartbeat,
\* the update and the LED pattern
RecoverySteps == {HEARTBEAT_INTERVAL + 10, HEARTBEAT_INTERVAL + 20}

InitRecovery ==
    /\ InitSystem
    /\ currentState = SYSTEM_ERROR

\* one iteration of loop() that begins in SYSTEM_ERROR
ErrorIteration ==
    /\ currentState = SYSTEM_ERROR
    /\ \E d \in RecoverySteps :
           LET heartbeat == now - lastHeartbeat > HEARTBEAT_INTERVAL
               update == now - lastUpdateTime > UPDATE_INTERVAL
               s1 == IF heartbeat
                     THEN systemHeartbeat([Sketch EXCEPT !.spoken = << >>], FALSE)
                     ELSE [Sketch EXCEPT !.spoken = << >>]
               s2 == IF update THEN runErrorRecovery(s1, now, TRUE) ELSE s1
               back == IF now + d >= 2 * RecoveryPeriod THEN RecoveryPeriod ELSE 0
           IN  /\ Assign(handleImmediateTasks(s2, ""))
               /\ lastHeartbeat' = (IF heartbeat THEN now ELSE lastHeartbeat) - back
               /\ lastUpdateTime' = (IF update THEN now ELSE lastUpdateTime) - back
               /\ now' = now + d - back
    /\ lastCall' = Call("runErrorRecovery", personality)
    /\ UNCHANGED <<loopPhase, loops, reminded, selected>>

NextRecovery == ErrorIteration

\* the Arduino core calls loop() again whenever it returns
SpecRecovery == InitRecovery /\ [][NextRecovery]_vars /\ WF_vars(ErrorIteration)

---------------------------------------------------------------------------
(* The escalation state machine: C1, C2, C6, C7 (under Spec)               *)

CareDropped == personality.currentCareLevel < lastCall.care

\* C1 as stated: the care level decreases only as the immediate effect of a
\* recorded user response with effective = true; with no user response it
\* never decreases.
C1_DecreaseOnlyOnEffectiveResponse ==
    CareDropped => lastCall.op = "recordUserResponse" /\ lastCall.effective

\* C1 as amended: the care level decreases only as the immediate effect of
\* recordUserResponse(effective = true) or of an updateMood whose caring
\* urgency is below 0.3; every other call leaves it or raises it.
C1_DecreaseOnlyOnResponseOrLowUrgency ==
    CareDropped =>
        \/ lastCall.op = "recordUserResponse" /\ lastCall.effective
        \/ lastCall.op = "updateMood" /\ lastCall.urgency = "low"

\* an updateMood with low urgency has just lowered the care level by one
C1_Witness ==
    /\ lastCall.op = "updateMood"
    /\ lastCall.urgency = "low"
    /\ personality.currentCareLevel = lastCall.care - 1

\* C2: one call (a behaviour evaluation, an outcome event, an urgent
\* response) changes the care level by at most one step, also when the
\* inactivity has crossed two or more thresholds since the last evaluation.
C2_SingleStep ==
    /\ personality.currentCareLevel <= lastCall.care + 1
    /\ personality.currentCareLevel >= lastCall.care - 1

\* an evaluation whose inactivity crossed at least two thresholds raised
\* the care level, by one
C2_Witness ==
    /\ lastCall.op = "updateMood"
    /\ lastCall.crossed >= 2
    /\ personality.currentCareLevel = lastCall.care + 1

\* C6: a recorded effective response lowers the care level by exactly one
\* step, not below Gentle, and sets consecutiveIgnored to 0.
C6_EffectiveResponseDeescalates ==
    lastCall.op = "recordUserResponse" /\ lastCall.effective =>
        /\ personality.currentCareLevel =
               (IF lastCall.care > CARE_GENTLE THEN lastCall.care - 1 ELSE CARE_GENTLE)
        /\ personality.history.consecutiveIgnored = 0

\* from Worried, with reminders ignored before, an effective response has
\* left Concerned
C6_Witness ==
    /\ lastCall.op = "recordUserResponse" /\ lastCall.effective
    /\ lastCall.care = CARE_WORRIED
    /\ lastCall.ignored > 0
    /\ personality.currentCareLevel = CARE_CONCERNED

\* C7: an ignored reminder that brings consecutiveIgnored to 3 or more
\* while the care level is below Worried raises the care level by exactly
\* one step, whatever the inactivity is.
C7_IgnoredEscalates ==
    /\ lastCall.op = "recordUserIgnored"
    /\ personality.history.consecutiveIgnored >= 3
    /\ lastCall.care < CARE_WORRIED
    => personality.currentCareLevel = lastCall.care + 1

\* the third ignored reminder in a row raised the care level while the
\* latest evaluation saw no inactivity threshold exceeded
C7_Witness ==
    /\ lastCall.op = "recordUserIgnored"
    /\ personality.history.consecutiveIgnored = 3
    /\ lastCall.band = 0
    /\ personality.currentCareLevel = lastCall.care + 1

---------------------------------------------------------------------------
(* The response selector: C3, C4, C5 (under SpecSelect), C10 (SpecContext) *)

Generated ==
    lastCall.op \in {"generateCaringResponse", "generateContextualResponse",
                     "generateUrgentResponse"}

\* C3: from a bank of at least two messages, a selection never returns the
\* text that the selection before it from the same bank returned, whatever
\* the care level, the mood, the uptime and the time between the two are.
C3_NoImmediateRepeat ==
    /\ Generated
    /\ lastCall.index # 0
    /\ Len(personality.messageBank[lastCall.type]) >= 2
    /\ lastCall.previous.text # << >>
    => lastCall.text # lastCall.previous.text

\* C4: a call that returns a non-empty String comes more than
\* responseCooldown milliseconds after the latest call before it that
\* returned a non-empty String, for every type asked for.
C4_OneResponsePerCooldown ==
    Generated /\ lastCall.text # << >> /\ lastCall.lastSpoke >= 0
    => lastCall.millis - lastCall.lastSpoke > personality.responseCooldown

\* a call that returned no message leaves the engine as it was, so the
\* engine after the call tells whether the call could respond
Silenced ==
    \/ ~personality.canRespond
    \/ lastCall.millis - personality.lastMessageTime <= personality.responseCooldown

\* C5 as stated: the call returns the empty String when the bank of the
\* type is empty, when the cooldown has not elapsed or when responses are
\* disabled.
C5_EmptyWhenNothingToSay ==
    Generated /\ lastCall.index = 0 => lastCall.text = << >>

\* C5 as amended: the call returns the empty String when the cooldown has
\* not elapsed since lastMessageTime or when responses are disabled; when
\* the engine can respond and the bank of the type is empty it returns the
\* fixed fallback message; a bank message is returned in the remaining case.
C5_EmptyOrFallback ==
    Generated =>
        IF lastCall.index # 0
        THEN lastCall.text # << >> /\ personality.lastMessageTime = lastCall.millis
        ELSE IF Silenced
        THEN lastCall.text = << >>
        ELSE /\ lastCall.text = FallbackMessage
             /\ personality.messageBank[lastCall.type] = << >>

\* each of the three cases has happened: the cooldown still running at
\* exactly responseCooldown after a message, responses disabled, and an
\* empty bank answered with the fallback message
C5_Witness ==
    /\ Generated
    /\ lastCall.index = 0
    /\ \/ /\ personality.canRespond
          /\ personality.lastMessageTime > 0
          /\ lastCall.millis - personality.lastMessageTime = personality.responseCooldown
          /\ lastCall.text = << >>
       \/ /\ ~personality.canRespond
          /\ lastCall.millis - personality.lastMessageTime > personality.responseCooldown
          /\ lastCall.text = << >>
       \/ /\ personality.messageBank[lastCall.type] = << >>
          /\ lastCall.text = FallbackMessage

\* the type that the priority order `order` (highest first) gives the
\* needs of the latest snapshot; Encouragement when none of them is set
RECURSIVE TypeByPriority(_)
TypeByPriority(order) ==
    IF order = << >> THEN RESPONSE_ENCOURAGEMENT
    ELSE IF Head(order)[1] \in lastCall.needs THEN Head(order)[2]
    ELSE TypeByPriority(Tail(order))

Emitted(type) ==
    /\ personality.history.lastResponseType = type
    /\ \E i \in 1..Len(Catalog(type)) :
           lastCall.text = personalizeMessage(personality, Catalog(type)[i].text)

\* C10 as stated: the message emitted for a snapshot is of the type of its
\* highest need in the order Posture > Movement > Hydration > Encouragement.
C10_PostureFirst ==
    lastCall.op = "generateContextualResponse" /\ lastCall.index # 0 =>
        Emitted(TypeByPriority(<< <<"posture", RESPONSE_POSTURE>>,
                                  <<"movement", RESPONSE_MOVEMENT>>,
                                  <<"hydration", RESPONSE_HYDRATION>>,
                                  <<"encouragement", RESPONSE_ENCOURAGEMENT>> >>))

\* C10 as amended: the message emitted for a snapshot is of the type of its
\* highest need in the order Hydration > Movement > Posture > Encouragement,
\* and an Encouragement message when no need is set.
C10_HydrationFirst ==
    lastCall.op = "generateContextualResponse" /\ lastCall.index # 0 =>
        Emitted(TypeByPriority(<< <<"hydration", RESPONSE_HYDRATION>>,
                                  <<"movement", RESPONSE_MOVEMENT>>,
                                  <<"posture", RESPONSE_POSTURE>>,
                                  <<"encouragement", RESPONSE_ENCOURAGEMENT>> >>))

\* a snapshot with hydration, movement and posture needs got a Hydration
\* message
C10_Witness ==
    /\ lastCall.op = "generateContextualResponse"
    /\ lastCall.index # 0
    /\ {"hydration", "movement", "posture"} \subseteq lastCall.needs
    /\ personality.history.lastResponseType = RESPONSE_HYDRATION

---------------------------------------------------------------------------
(* Sleep and wake: C8, C9 (under SpecSystem)                               *)

\* C8: from the Sleep command until the next Wake the mood is Sleeping,
\* whatever the care level and the needs are.
C8_SleepingMoodWhileAsleep ==
    currentState = SYSTEM_SLEEPING => personality.currentMood = MOOD_SLEEPING

NonEmpty(message) == message # << >>

\* C11: in one iteration of loop() at most one message is handed to the
\* audio renderer, also when several reminders are due and a caring response
\* is generated in that iteration
C11_OneMessagePerIteration == Len(SelectSeq(spoken, NonEmpty)) <= 1

\* C12: a reminder that fires resets its timer, so the same reminder fires
\* again only after its whole interval has passed once more
C12_FiresOncePerInterval ==
    \A c \in Reminders :
        reminded[c][1] >= 0 =>
            reminded[c][2] - reminded[c][1] >= ReminderInterval(c) * 60000

\* the scenario has passed 90 minutes of inactivity, not yet
\* URGENT_INACTIVITY_THRESHOLD, and three reminders in a row were ignored
C13_Scenario ==
    /\ lastCall.scenario
    /\ lastCall.minutes > 90
    /\ lastCall.band = InactivityBand(CONCERNED_INACTIVITY_THRESHOLD + 1)
    /\ personality.history.consecutiveIgnored = 3

\* C13 as stated: from Gentle/Happy and inactivity 0, once the inactivity
\* has passed 90 minutes with needsHydration and three reminders in a row
\* were ignored, the care level is Concerned and the mood is Concerned.
C13_ConcernedConcerned ==
    C13_Scenario =>
        /\ personality.currentCareLevel = CARE_CONCERNED
        /\ personality.currentMood = MOOD_CONCERNED

\* C13 as amended: in that scenario the mood is Concerned, and the care
\* level is Concerned when one evaluation found the inactivity beyond
\* CONCERNED_INACTIVITY_THRESHOLD and Worried when more than one did.
C13_ConcernedAfterOneEvaluation ==
    C13_Scenario =>
        /\ personality.currentMood = MOOD_CONCERNED
        /\ lastCall.high = 1 => personality.currentCareLevel = CARE_CONCERNED
        /\ lastCall.high > 1 => personality.currentCareLevel = CARE_WORRIED

\* one evaluation past 90 minutes and the third ignored reminder in a row
\* have left Concerned/Concerned
C13_Witness ==
    /\ C13_Scenario
    /\ lastCall.op = "recordUserIgnored"
    /\ lastCall.high = 1
    /\ personality.currentCareLevel = CARE_CONCERNED
    /\ personality.currentMood = MOOD_CONCERNED

CareRaised == personality.currentCareLevel > lastCall.care

\* C20 as stated: an evaluation raises the care level only when the
\* inactivity crossed a threshold (30/60/120 minutes) since the evaluation
\* before, then by exactly one step; an evaluation that crossed no new
\* threshold does not raise it.
C20_RaisedOnlyOnCrossing ==
    lastCall.op = "updateMood" =>
        /\ CareRaised => lastCall.crossed >= 1
        /\ lastCall.crossed >= 1 /\ lastCall.care < CARE_WORRIED =>
               personality.currentCareLevel = lastCall.care + 1

\* C20 as amended: an evaluation raises the care level exactly when its
\* caring urgency exceeds 0.7 and the level is below Worried, by exactly
\* one step, at every such evaluation, whether or not the inactivity
\* crossed a threshold since the evaluation before.
C20_RaisedOnHighUrgency ==
    lastCall.op = "updateMood" =>
        /\ CareRaised <=> lastCall.urgency = "high" /\ lastCall.care < CARE_WORRIED
        /\ CareRaised => personality.currentCareLevel = lastCall.care + 1

\* an evaluation that crossed no threshold raised the care level, from a
\* level above Gentle
C20_Witness ==
    /\ lastCall.op = "updateMood"
    /\ lastCall.crossed = 0
    /\ lastCall.urgency = "high"
    /\ lastCall.care > CARE_GENTLE
    /\ personality.currentCareLevel = lastCall.care + 1

\* the call has selected a message of messageBank[lastCall.type]
Chosen == Generated /\ lastCall.index # 0

ChosenMessage == personality.messageBank[lastCall.type][lastCall.index]

HasCareLevel(type, level) ==
    \E i \in 1..Len(Catalog(type)) : Catalog(type)[i].careLevel = level

\* the selected message is the first one used of its bank
FirstOfBank ==
    \A j \in 1..Len(personality.messageBank[lastCall.type]) :
        personality.messageBank[lastCall.type][j].useCount =
            (IF j = lastCall.index THEN 1 ELSE 0)

\* C14 as stated: a message emitted at care level L is an entry whose
\* careLevel is L whenever the bank of the requested type has such an
\* entry, after any history of earlier selections.
C14_MatchesCareLevel ==
    Chosen /\ HasCareLevel(lastCall.type, personality.currentCareLevel) =>
        ChosenMessage.careLevel = personality.currentCareLevel

\* C14 as amended: the first message selected from a bank is an entry whose
\* careLevel is the current care level whenever the bank has such an entry.
C14_FirstMatchesCareLevel ==
    /\ Chosen
    /\ FirstOfBank
    /\ HasCareLevel(lastCall.type, personality.currentCareLevel)
    => ChosenMessage.careLevel = personality.currentCareLevel

\* the first message of a bank was selected at a care level above Gentle,
\* from a bank that has a message of the current mood at another care level
C14_Witness ==
    /\ Chosen
    /\ FirstOfBank
    /\ personality.currentCareLevel > CARE_GENTLE
    /\ ChosenMessage.careLevel = personality.currentCareLevel
    /\ \E i \in 1..Len(Catalog(lastCall.type)) :
           /\ Catalog(lastCall.type)[i].mood = personality.currentMood
           /\ Catalog(lastCall.type)[i].careLevel # personality.currentCareLevel

Least(S) == CHOOSE i \in S : \A j \in S : i <= j

\* C18 as stated: of two or more messages with the same top score the one
\* with the lowest useCount is selected, and of those still tied the first
\* in catalog order.
C18_LeastUsedThenCatalogOrder ==
    Chosen /\ Cardinality(lastCall.top) >= 2 => lastCall.index = Least(lastCall.least)

\* C18 as amended: of two or more messages with the same top score the
\* first in catalog order is selected, whatever their useCounts are.
C18_CatalogOrder ==
    Chosen /\ Cardinality(lastCall.top) >= 2 => lastCall.index = Least(lastCall.top)

\* a message used before was selected over a message never used that
\* scored the same and comes later in the catalog
C18_Witness ==
    /\ Chosen
    /\ lastCall.index \notin lastCall.least
    /\ lastCall.index = Least(lastCall.top)
    /\ ChosenMessage.useCount = 2

\* this step is a call that selects a message
Selects == Chosen' /\ personality' # personality

\* C19: a successful selection adds one to the useCount of the selected
\* message, sets its timestamp and lastMessageTime to millis(), leaves the
\* useCount and timestamp of every other message of every bank, and
\* returns the message's text with every {name} replaced by userName.
C19_SelectionFrame ==
    [][Selects =>
        LET type == lastCall'.type
            index == lastCall'.index
            before == personality.messageBank
            after == personality'.messageBank
        IN  /\ after[type][index].useCount = before[type][index].useCount + 1
            /\ after[type][index].timestamp = now
            /\ personality'.lastMessageTime = now
            /\ \A t \in ResponseType :
                   /\ Len(after[t]) = Len(before[t])
                   /\ \A j \in 1..Len(before[t]) :
                          t # type \/ j # index =>
                              /\ after[t][j].useCount = before[t][j].useCount
                              /\ after[t][j].timestamp = before[t][j].timestamp
            /\ Len(lastCall'.text) = Len(before[type][index].text)
            /\ \A k \in 1..Len(lastCall'.text) :
                   lastCall'.text[k] = (IF before[type][index].text[k] = "{name}"
                                        THEN personality.userName
                                        ELSE before[type][index].text[k])]_vars

\* a message with a {name} placeholder was selected for the second time,
\* later than the first, and returned with the default user name in it
C19_Witness ==
    /\ Chosen
    /\ ChosenMessage.useCount = 2
    /\ ChosenMessage.timestamp = now
    /\ ChosenMessage.timestamp > RESPONSE_COOLDOWN + 1
    /\ \E k \in 1..Len(ChosenMessage.text) :
           /\ ChosenMessage.text[k] = "{name}"
           /\ lastCall.text[k] = "friend"

\* this step records an outcome
Records == lastCall'.op \in {"recordUserResponse", "recordUserIgnored"}

\* the moving average this step leaves for the type of its outcome, with
\* effectiveness in units of 1/PrefOne
Averaged(effectiveness) ==
    personality'.userPreferences[lastCall'.type] * RateDen =
        personality.userPreferences[lastCall'.type] * (RateDen - personality.adaptationRate)
            + effectiveness * personality.adaptationRate

\* C15 as stated: recording an outcome for a type sets its effectiveness
\* to old*(1-rate) + (effective ? 1 : 0)*rate, rate being 0.1 by default:
\* acted upon moves it toward 1, ignored or ineffective toward 0.
C15_MovingAverage ==
    /\ personality.adaptationRate = RateNum
    /\ [][Records => Averaged(IF lastCall'.effective THEN PrefOne ELSE 0)]_vars

\* C15 as amended: with learning enabled, recordUserResponse sets the
\* effectiveness of its type to old*(1-rate) + (effective ? 1 : 0)*rate and
\* recordUserIgnored to old*(1-rate) + 0.2*rate, rate being 0.1 by default;
\* with learning disabled recording an outcome leaves it.
C15_MovingAverageWhileLearning ==
    /\ personality.adaptationRate = RateNum
    /\ [][Records =>
            IF ~personality.learningEnabled
                THEN personality'.userPreferences = personality.userPreferences
            ELSE IF lastCall'.op = "recordUserIgnored"
                THEN Averaged(PrefOne \div 5)
            ELSE Averaged(IF lastCall'.effective THEN PrefOne ELSE 0)]_vars

\* an ignored reminder, at the default rate, has moved the effectiveness
\* of its type from 0.5 to 0.47
C15_Witness ==
    /\ lastCall.op = "recordUserIgnored"
    /\ personality.learningEnabled
    /\ personality.adaptationRate = RateNum
    /\ personality.userPreferences[lastCall.type] * RateDen =
           (PrefOne \div 2) * (RateDen - RateNum) + (PrefOne \div 5) * RateNum

\* C16: every effectiveness stays within [0,1] after any sequence of
\* recorded outcomes, for any rate given to setAdaptationRate.
C16_WithinUnitInterval ==
    \A t \in ResponseType :
        personality.userPreferences[t] >= 0 /\ personality.userPreferences[t] <= PrefOne

\* C17: every effectiveness starts at 0.5 and changes only in a step that
\* records an outcome for its own type; recording for a type leaves the
\* other types, and message generation, mood updates and queue operations
\* leave them all.
C17_OnlyOwnOutcome ==
    /\ \A t \in ResponseType : personality.userPreferences[t] = PrefOne \div 2
    /\ [][\A t \in ResponseType :
              personality'.userPreferences[t] # personality.userPreferences[t] =>
                  Records /\ t = lastCall'.type]_vars

\* a message was generated and a message queued after an outcome moved the
\* effectiveness of its type, and of its type only
C17_Witness ==
    /\ Chosen
    /\ personality.messageQueue # << >>
    /\ personality.userPreferences[RESPONSE_HYDRATION] # PrefOne \div 2
    /\ \A t \in ResponseType \ {RESPONSE_HYDRATION} :
           personality.userPreferences[t] = PrefOne \div 2

\* the mood was recomputed from a snapshot with an unmet need and no
\* positive behaviour
RecomputedWithNeeds ==
    /\ lastCall.op = "updateMood"
    /\ \/ lastCall.snapshot.needsHydration
       \/ lastCall.snapshot.needsMovement
       \/ lastCall.snapshot.needsPostureAdjustment
    /\ ~lastCall.snapshot.hasPositiveBehavior

C24_EventuallyReady == <>(currentState = SYSTEM_READY)

\* behaviorAI.needsReminder(behavior) was true in the latest update, which
\* ran in SYSTEM_READY
ReminderNeeded ==
    /\ lastCall.op = "runNormalOperation"
    /\ "reminder" \in lastCall.needs

\* C25: an update in SYSTEM_READY that needs a reminder leaves
\* SYSTEM_CONCERNED and mood Worried when inactivityMinutes exceeds 120,
\* and SYSTEM_CARING and mood Caring otherwise; and no other step enters
\* SYSTEM_CONCERNED.
C25_TransitionToCaring ==
    /\ [](ReminderNeeded =>
             IF lastCall.snapshot.inactivityMinutes > 120
             THEN /\ currentState = SYSTEM_CONCERNED
                  /\ personality.currentMood = MOOD_WORRIED
             ELSE /\ currentState = SYSTEM_CARING
                  /\ personality.currentMood = MOOD_CARING)
    /\ [][currentState # SYSTEM_CONCERNED /\ currentState' = SYSTEM_CONCERNED =>
              /\ currentState = SYSTEM_READY
              /\ ReminderNeeded'
              /\ lastCall'.snapshot.inactivityMinutes > 120]_vars

\* a reminder was needed after more than 120 minutes of inactivity
C25_Witness ==
    /\ ReminderNeeded
    /\ lastCall.snapshot.inactivityMinutes > 120
    /\ currentState = SYSTEM_CONCERNED

\* C26 as stated: runCaringMode emits a caring response and leaves
\* SYSTEM_READY.
C26_OneResponsePerCaringMode ==
    lastCall.op = "runCaringMode" =>
        /\ currentState = SYSTEM_READY
        /\ lastCall.text # << >>

\* C26 as amended: runCaringMode leaves SYSTEM_READY, having emitted a
\* caring response exactly when the engine could respond (an empty string
\* otherwise); an update that begins in SYSTEM_CARING is a runCaringMode,
\* and SYSTEM_CARING is entered by runNormalOperation only, so no two
\* consecutive main updates begin in SYSTEM_CARING.
C26_CaringLastsOneUpdate ==
    /\ [](lastCall.op = "runCaringMode" =>
             /\ currentState = SYSTEM_READY
             /\ (lastCall.text # << >>) <=> lastCall.could)
    /\ [][currentState = SYSTEM_CARING /\ lastUpdateTime' # lastUpdateTime =>
              /\ lastCall'.op = "runCaringMode"
              /\ currentState' = SYSTEM_READY]_vars
    /\ [][currentState # SYSTEM_CARING /\ currentState' = SYSTEM_CARING =>
              /\ lastUpdateTime' # lastUpdateTime
              /\ lastCall'.op = "runNormalOperation"]_vars

\* runCaringMode ran while the cooldown was active: nothing was said and
\* the system is back in SYSTEM_READY
C26_Witness ==
    /\ lastCall.op = "runCaringMode"
    /\ ~lastCall.could
    /\ lastCall.text = << >>
    /\ currentState = SYSTEM_READY

\* C27: a main update in SYSTEM_SLEEPING that observes motion leaves the
\* sleep mode cleared, the mood Happy and the state SYSTEM_READY; one that
\* observes none leaves SYSTEM_SLEEPING with the sleep mode set; and
\* SYSTEM_SLEEPING is left by a wake only.
C27_WakeOnMotion ==
    /\ [][currentState = SYSTEM_SLEEPING /\ lastUpdateTime' # lastUpdateTime =>
              IF lastCall'.op = "wakeFromSleep"
              THEN /\ ~sleepModeActive'
                   /\ personality'.currentMood = MOOD_HAPPY
                   /\ currentState' = SYSTEM_READY
              ELSE /\ sleepModeActive'
                   /\ currentState' = SYSTEM_SLEEPING]_vars
    /\ [][currentState = SYSTEM_SLEEPING /\ currentState' # SYSTEM_SLEEPING =>
              lastCall'.op = "wakeFromSleep"]_vars

\* the update of this iteration of loop() saw motion and woke the system
C27_Witness ==
    /\ lastCall.op = "wakeFromSleep"
    /\ loopPhase = "tasks"
    /\ lastUpdateTime = now
    /\ ~sleepModeActive
    /\ personality.currentMood = MOOD_HAPPY
    /\ currentState = SYSTEM_READY

\* C28: the message queue never holds more than 10 messages, and
\* queueMessage on a queue that holds 10 leaves the queue as it was.
C28_QueueLimit ==
    /\ [](Len(personality.messageQueue) <= 10)
    /\ [][lastCall'.op = "queueMessage" /\ Len(personality.messageQueue) = 10 =>
              personality'.messageQueue = personality.messageQueue]_vars

\* queueMessage was called on a queue of 10
C28_Witness ==
    /\ lastCall.op = "queueMessage"
    /\ lastCall.queued = 10
    /\ Len(personality.messageQueue) = 10

\* C29: every call of generateUrgentResponse leaves the care level one
\* step above what it was, or Worried when it was Worried, whether or not
\* a response is returned.
C29_UrgentAlwaysEscalates ==
    lastCall.op = "generateUrgentResponse" =>
        personality.currentCareLevel =
            IF lastCall.care < CARE_WORRIED THEN lastCall.care + 1 ELSE CARE_WORRIED

\* generateUrgentResponse returned nothing, the cooldown being active,
\* and the care level is one step up
C29_Witness ==
    /\ lastCall.op = "generateUrgentResponse"
    /\ personality.canRespond
    /\ ~lastCall.could
    /\ lastCall.text = << >>
    /\ personality.currentCareLevel = lastCall.care + 1

Waiting(message) ==
    \E i \in 1..Len(personality.messageQueue) : personality.messageQueue[i] = message

Spoken(message) ==
    \E i \in 1..Len(spoken) : spoken[i] = message

C31_NothingWhileQuiet ==
    [][/\ lastCall' # lastCall
       /\ lastCall'.op \in {"generateCaringResponse", "queueResponse"}
       /\ ~canRespondNow(personality, now)
       => /\ lastCall'.text = << >>
          /\ personality' = personality]_vars

\* a response was asked for within the cooldown of an earlier one
C31_Witness ==
    /\ lastCall.op \in {"generateCaringResponse", "queueResponse"}
    /\ ~lastCall.could
    /\ personality.canRespond
    /\ personality.lastMessageTime > 0
    /\ lastCall.text = << >>

\* C32: the care level is always one of CARE_GENTLE..CARE_WORRIED; a
\* generateUrgentResponse at Worried leaves Worried and an effective
\* recordUserResponse at Gentle leaves Gentle.
C32_CareLevelInRange ==
    /\ personality.currentCareLevel \in CARE_GENTLE..CARE_WORRIED
    /\ lastCall.op = "generateUrgentResponse" /\ lastCall.care = CARE_WORRIED =>
           personality.currentCareLevel = CARE_WORRIED
    /\ lastCall.op = "recordUserResponse" /\ lastCall.care = CARE_GENTLE =>
           personality.currentCareLevel = CARE_GENTLE

\* generateUrgentResponse was called at Worried
C32_Witness ==
    /\ lastCall.op = "generateUrgentResponse"
    /\ lastCall.care = CARE_WORRIED
    /\ personality.currentCareLevel = CARE_WORRIED

\* C33: after the serial command wake the state is SYSTEM_READY and after
\* sleep it is SYSTEM_SLEEPING, whatever the state was, SYSTEM_ERROR
\* included.
C33_SleepAndWakeEverywhere ==
    /\ lastCall.command = "wake" => currentState = SYSTEM_READY
    /\ lastCall.command = "sleep" => currentState = SYSTEM_SLEEPING

\* wake was read in SYSTEM_ERROR, which was left with no reinitialization
C33_Witness ==
    /\ lastCall.command = "wake"
    /\ lastCall.stateBefore = SYSTEM_ERROR
    /\ currentState = SYSTEM_READY

\* C34: in a run of recordUserIgnored calls that began at Gentle with
\* nothing ignored, consecutiveIgnored counts the calls and is not reset;
\* the first two leave Gentle and the 3rd, 4th and 5th each raise the care
\* level by one step, so that the fifth leaves Worried, where it stays.
C34_FiveIgnoresReachWorried ==
    lastCall.op = "recordUserIgnored" /\ lastCall.run >= 1 =>
        /\ personality.history.consecutiveIgnored = lastCall.run
        /\ personality.currentCareLevel =
               (IF lastCall.run < 3 THEN CARE_GENTLE
                ELSE IF lastCall.run < 5 THEN lastCall.run - 2
                ELSE CARE_WORRIED)

\* the fifth ignored reminder of a run from Gentle raised Concerned to
\* Worried
C34_Witness ==
    /\ lastCall.op = "recordUserIgnored"
    /\ lastCall.run = 5
    /\ lastCall.care = CARE_CONCERNED
    /\ personality.currentCareLevel = CARE_WORRIED

\* C35: a recordUserResponse with effective = false leaves
\* consecutiveIgnored at 0 and userResponded set, and the care level as
\* it was.
C35_IneffectiveResponseKeepsCare ==
    lastCall.op = "recordUserResponse" /\ ~lastCall.effective =>
        /\ personality.history.consecutiveIgnored = 0
        /\ personality.history.userResponded
        /\ personality.currentCareLevel = lastCall.care

\* an ineffective response came after ignored reminders had raised the
\* care level
C35_Witness ==
    /\ lastCall.op = "recordUserResponse" /\ ~lastCall.effective
    /\ lastCall.ignored >= 3
    /\ lastCall.care > CARE_GENTLE
    /\ personality.history.consecutiveIgnored = 0
    /\ personality.currentCareLevel = lastCall.care

====
